---- MODULE Spec2Model ----
(***************************************************************************)
(* A model of the ANMS ACE toolkit (NASA-AMMOS/anms-ace): the ARI value    *)
(* model, the ARI text and CBOR codecs, the nickname converter and the ADM *)
(* catalog (AdmSet).                                                       *)
(*                                                                         *)
(* Text is a sequence of code points and an octet string a sequence of     *)
(* numbers in 0..255, so that casefolding, UTF-8 coding of ASCII, decimal  *)
(* and hexadecimal formatting are computed and not assumed.                *)
(***************************************************************************)
EXTENDS Integers, Sequences, FiniteSets, TLC

VARIABLES
    adms,    \* the AdmSet: [rows, pending_adms, next_id]
    call,    \* the outcome of the last AdmSet call: [op, exc, ret]
    src,     \* tool pipeline: the input handed to the first codec
    cur,     \* tool pipeline: the current value [form, val, exc]
    trail    \* tool pipeline: the operations applied so far and their results

vars == <<adms, call, src, cur, trail>>

-----------------------------------------------------------------------------
(* Python values.  Every value carries its kind first, so that values of    *)
(* different kinds compare unequal.                                         *)

None == [k |-> "none"]
PyBool(b) == [k |-> "bool", v |-> b]
PyInt(n) == [k |-> "int", v |-> n]
PyFloat(f) == [k |-> "float", v |-> f]
PyStr(s) == [k |-> "str", v |-> s]
PyBytes(b) == [k |-> "bytes", v |-> b]
PyList(l) == [k |-> "list", v |-> l]

\* The printable ASCII characters, code points 32..126, in order (three of
\* them spelled out).
AsciiChars ==
    << " ", "!", "DQUOTE", "#", "$", "%", "&", "'", "(", ")", "*", "+", ",", "-",
       ".", "/", "0", "1", "2", "3", "4", "5", "6", "7", "8", "9", ":", ";",
       "<", "=", ">", "?", "@", "A", "B", "C", "D", "E", "F", "G", "H", "I",
       "J", "K", "L", "M", "N", "O", "P", "Q", "R", "S", "T", "U", "V", "W",
       "X", "Y", "Z", "[", "BACKSLASH", "]", "^", "_", "BACKTICK", "a", "b", "c", "d", "e",
       "f", "g", "h", "i", "j", "k", "l", "m", "n", "o", "p", "q", "r", "s",
       "t", "u", "v", "w", "x", "y", "z", "{", "|", "}", "~" >>

Ord(c) == 31 + (CHOOSE i \in 1..Len(AsciiChars) : AsciiChars[i] = c)

\* A text literal: the code points of a tuple of one-character strings.
T(chars) == [i \in 1..Len(chars) |-> Ord(chars[i])]

IsUpper(c) == c >= 65 /\ c <= 90
IsLower(c) == c >= 97 /\ c <= 122
IsAlpha(c) == IsUpper(c) \/ IsLower(c)
IsDigit(c) == c >= 48 /\ c <= 57

\* the lower-case form of an ASCII character
Fold(c) == IF IsUpper(c) THEN c + 32 ELSE c

\* str.casefold() on ASCII text
casefold(s) == [i \in 1..Len(s) |-> Fold(s[i])]

\* str.upper() on ASCII text
upper(s) == [i \in 1..Len(s) |-> IF IsLower(s[i]) THEN s[i] - 32 ELSE s[i]]

normalize_ident(text) ==
    LET folded == casefold(text)
    IN  [i \in 1..Len(folded) |-> IF folded[i] = Ord("/") THEN Ord("_") ELSE folded[i]]

\* string.printable: digits, letters, punctuation and " \t\n\r\x0b\x0c"
InStringPrintable(c) == (c >= 32 /\ c <= 126) \/ (c >= 9 /\ c <= 13)

is_printable(name) ==
    /\ Len(name) > 0
    /\ IsAlpha(name[1])
    /\ \A i \in 1..Len(name) : InStringPrintable(name[i])

RECURSIVE Pow(_, _)
Pow(b, e) == IF e = 0 THEN 1 ELSE b * Pow(b, e - 1)

RECURSIVE DecDigits(_)
\* the decimal digits of a natural number, as text
DecDigits(n) == IF n < 10 THEN <<48 + n>> ELSE Append(DecDigits(n \div 10), 48 + (n % 10))

\* the decimal text of an int, as an f-string formats it
IntText(n) == IF n < 0 THEN <<Ord("-")>> \o DecDigits(-n) ELSE DecDigits(n)

HexDigit(d) == IF d < 10 THEN 48 + d ELSE 87 + d

RECURSIVE HexText(_)
\* bytes.hex(): two lower-case digits per octet
HexText(b) ==
    IF b = <<>> THEN <<>>
    ELSE <<HexDigit(Head(b) \div 16), HexDigit(Head(b) % 16)>> \o HexText(Tail(b))

RECURSIVE DecValue(_)
\* the number a sequence of decimal digits spells
DecValue(ds) == IF ds = <<>> THEN 0 ELSE (DecValue(SubSeq(ds, 1, Len(ds) - 1)) * 10) + (ds[Len(ds)] - 48)

\* the value of a hexadecimal digit, either case
HexValue(c) == IF IsDigit(c) THEN c - 48 ELSE Fold(c) - 87

IsHexDigit(c) == IsDigit(c) \/ (Fold(c) >= 97 /\ Fold(c) <= 102)

IsBinDigit(c) == c = 48 \/ c = 49

RECURSIVE Split(_, _)
\* str.split(sep) for a one-character separator
Split(s, sep) ==
    IF \A i \in 1..Len(s) : s[i] # sep THEN <<s>>
    ELSE LET i == CHOOSE j \in 1..Len(s) : s[j] = sep /\ \A m \in 1..(j - 1) : s[m] # sep
         IN  <<SubSeq(s, 1, i - 1)>> \o Split(SubSeq(s, i + 1, Len(s)), sep)

-----------------------------------------------------------------------------
(* ace.ari: the ARI value model                                             *)

\* class StructType(enum.IntEnum), in definition order
StructType ==
    [ MDAT |-> -1,
      CONST |-> 0,
      CTRL |-> 1,
      EDD |-> 2,
      LIT |-> 3,
      MAC |-> 4,
      OPER |-> 5,
      RPTT |-> 7,
      SBR |-> 8,
      TBLT |-> 10,
      TBR |-> 11,
      VAR |-> 12,
      BOOL |-> 16,
      BYTE |-> 17,
      STR |-> 18,
      INT |-> 19,
      UINT |-> 20,
      VAST |-> 21,
      UVAST |-> 22,
      REAL32 |-> 23,
      REAL64 |-> 24,
      UNK |-> -25,
      TV |-> 32,
      TS |-> 33,
      TNVC |-> 35,
      ARI |-> 36,
      AC |-> 37,
      EXPR |-> 38,
      BSTR |-> 39 ]

\* the member names of StructType, as text
StructTypeNames ==
    [ MDAT |-> T(<<"M", "D", "A", "T">>),
      CONST |-> T(<<"C", "O", "N", "S", "T">>),
      CTRL |-> T(<<"C", "T", "R", "L">>),
      EDD |-> T(<<"E", "D", "D">>),
      LIT |-> T(<<"L", "I", "T">>),
      MAC |-> T(<<"M", "A", "C">>),
      OPER |-> T(<<"O", "P", "E", "R">>),
      RPTT |-> T(<<"R", "P", "T", "T">>),
      SBR |-> T(<<"S", "B", "R">>),
      TBLT |-> T(<<"T", "B", "L", "T">>),
      TBR |-> T(<<"T", "B", "R">>),
      VAR |-> T(<<"V", "A", "R">>),
      BOOL |-> T(<<"B", "O", "O", "L">>),
      BYTE |-> T(<<"B", "Y", "T", "E">>),
      STR |-> T(<<"S", "T", "R">>),
      INT |-> T(<<"I", "N", "T">>),
      UINT |-> T(<<"U", "I", "N", "T">>),
      VAST |-> T(<<"V", "A", "S", "T">>),
      UVAST |-> T(<<"U", "V", "A", "S", "T">>),
      REAL32 |-> T(<<"R", "E", "A", "L", "3", "2">>),
      REAL64 |-> T(<<"R", "E", "A", "L", "6", "4">>),
      UNK |-> T(<<"U", "N", "K">>),
      TV |-> T(<<"T", "V">>),
      TS |-> T(<<"T", "S">>),
      TNVC |-> T(<<"T", "N", "V", "C">>),
      ARI |-> T(<<"A", "R", "I">>),
      AC |-> T(<<"A", "C">>),
      EXPR |-> T(<<"E", "X", "P", "R">>),
      BSTR |-> T(<<"B", "S", "T", "R">>) ]

IsStructType(n) == \E f \in DOMAIN StructType : StructType[f] = n

\* the member of StructType with value n
MemberOf(n) == CHOOSE f \in DOMAIN StructType : StructType[f] = n

LITERAL_TYPES ==
    { StructType.BOOL, StructType.BYTE, StructType.INT, StructType.UINT,
      StructType.VAST, StructType.UVAST, StructType.REAL32, StructType.REAL64,
      StructType.UNK, StructType.STR, StructType.BSTR, StructType.TV,
      StructType.TS }

LITERAL_LABEL_TYPES ==
    { StructType.BYTE, StructType.INT, StructType.UINT, StructType.VAST,
      StructType.UVAST, StructType.REAL32, StructType.REAL64, StructType.UNK,
      StructType.TV, StructType.TS }

\* NUMERIC_LIMITS: an unsigned type of n bits has the limits (0, 2**n - 1), a
\* signed one (-2**(n-1), 2**(n-1) - 1).  The limits of REAL32 and REAL64 are
\* plus and minus 3.4028235e+38 and 1.7976931348623157e+308, just below 2**128
\* and 2**1024.
NUMERIC_LIMITS ==
    [ BYTE |-> [signed |-> FALSE, bits |-> 8],
      INT |-> [signed |-> TRUE, bits |-> 32],
      UINT |-> [signed |-> FALSE, bits |-> 32],
      VAST |-> [signed |-> TRUE, bits |-> 64],
      UVAST |-> [signed |-> FALSE, bits |-> 64],
      REAL32 |-> [signed |-> TRUE, bits |-> 129],
      REAL64 |-> [signed |-> TRUE, bits |-> 1025],
      UNK |-> [signed |-> FALSE, bits |-> 0],
      TV |-> [signed |-> FALSE, bits |-> 64],
      TS |-> [signed |-> FALSE, bits |-> 64] ]

\* The numbers of the model are below 2**31 in size: the whole part of a
\* number (floor), and whether it has a fractional part.
NumFloor(value) ==
    CASE value.k = "bool" -> IF value.v THEN 1 ELSE 0
      [] value.k = "int" -> value.v
      [] value.k = "float" ->
            IF value.v.e >= 0 THEN value.v.m * Pow(10, value.v.e)
            ELSE IF (0 - value.v.e) > 9 THEN (IF value.v.m < 0 THEN -1 ELSE 0)
            ELSE value.v.m \div Pow(10, 0 - value.v.e)

NumFrac(value) == value.k = "float" /\ value.v.e < 0

\* math.isfinite(value): "TypeError" for a value that is no number
IsFinite(value) ==
    CASE value.k \in {"bool", "int"} -> "yes"
      [] value.k = "float" -> IF value.v.sp = "fin" THEN "yes" ELSE "no"
      [] OTHER -> "TypeError"

\* value < lim[0] or value > lim[1], for a finite number
OutsideLimits(value, lim) ==
    LET n == NumFloor(value)
        hibits == IF lim.signed THEN lim.bits - 1 ELSE lim.bits
        below == IF lim.signed THEN lim.bits - 1 < 31 /\ n < 0 - Pow(2, lim.bits - 1)
                 ELSE n < 0
        above == hibits < 31 /\ (n > Pow(2, hibits) - 1
                                   \/ (n = Pow(2, hibits) - 1 /\ NumFrac(value)))
    IN  below \/ above

\* a == b in Python for two values: numbers compare by value, whatever their
\* kind, NaN equals nothing, other values compare within their kind
PyEq(a, b) ==
    IF IsFinite(a) = "yes" /\ IsFinite(b) = "yes"
    THEN /\ NumFloor(a) = NumFloor(b)
         /\ (IF NumFrac(a) THEN NumFrac(b) /\ a.v = b.v ELSE ~NumFrac(b))
    ELSE IF a.k = "float" /\ a.v.sp = "nan" THEN FALSE
    ELSE a = b

\* LiteralARI.check_type: the exception raised, or "none"
check_type(self) ==
    LET name == MemberOf(self.type_enum)
    IN  IF self.type_enum = StructType.BOOL
        THEN IF PyEq(self.value, PyBool(FALSE)) \/ PyEq(self.value, PyBool(TRUE))
             THEN "none" ELSE "ValueError"
        ELSE IF name \in DOMAIN NUMERIC_LIMITS
        THEN IF IsFinite(self.value) = "TypeError" THEN "TypeError"
             ELSE IF IsFinite(self.value) = "yes"
                     /\ OutsideLimits(self.value, NUMERIC_LIMITS[name])
             THEN "ValueError"
             ELSE "none"
        ELSE IF self.type_enum = StructType.STR
        THEN IF self.value.k # "str" THEN "ValueError" ELSE "none"
        ELSE IF self.type_enum = StructType.BSTR
        THEN IF self.value.k # "bytes" THEN "ValueError" ELSE "none"
        ELSE "none"

LiteralARI(type_enum, value) ==
    [cls |-> "LiteralARI", type_enum |-> type_enum, value |-> value]

Identity(namespace, type_enum, name, issuer, tag) ==
    [namespace |-> namespace, type_enum |-> type_enum, name |-> name,
     issuer |-> issuer, tag |-> tag]

\* params is None or a PyList
ReferenceARI(ident, params) ==
    [cls |-> "ReferenceARI", ident |-> ident, params |-> params]

AC(items) == [cls |-> "AC", items |-> items]

EXPR(type_enum, items) == [cls |-> "EXPR", type_enum |-> type_enum, items |-> items]

TNVC(items) == [cls |-> "TNVC", items |-> items]

-----------------------------------------------------------------------------
(* The cbor2 library, as far as the codecs use it: data items of major      *)
(* types 0 to 3 (integers, byte and text strings) and of major type 7       *)
(* (false, true, null, floats).  A result is [exc, val, pos]: the exception *)
(* raised ("none" when there is none), the value and the next read position.*)

\* a Python float: a finite decimal m * 10**e, or NaN or an infinity
Float(m, e) == [sp |-> "fin", m |-> m, e |-> e]
NaN == [sp |-> "nan", m |-> 0, e |-> 0]
Infinity == [sp |-> "inf", m |-> 0, e |-> 0]
NegInfinity == [sp |-> "-inf", m |-> 0, e |-> 0]

\* struct.pack('>d', value) of the floats that occur in the inputs
F64Table ==
    << <<Float(0, 0), <<0, 0, 0, 0, 0, 0, 0, 0>> >>,
       <<Float(5, -1), <<63, 224, 0, 0, 0, 0, 0, 0>> >>,
       <<Float(1, 0), <<63, 240, 0, 0, 0, 0, 0, 0>> >>,
       <<Float(15, -1), <<63, 248, 0, 0, 0, 0, 0, 0>> >>,
       <<Float(1, 1), <<64, 36, 0, 0, 0, 0, 0, 0>> >> >>

Ok(val, pos) == [exc |-> "none", val |-> val, pos |-> pos]
Raise(exc, pos) == [exc |-> exc, val |-> None, pos |-> pos]

RECURSIVE BytesBE(_, _)
\* n as k octets, most significant first
BytesBE(n, k) == IF k = 0 THEN <<>> ELSE Append(BytesBE(n \div 256, k - 1), n % 256)

\* the head of a data item: major type and argument, in the shortest form
CborHead(major, n) ==
    IF n < 24 THEN <<(major * 32) + n>>
    ELSE IF n < 256 THEN <<(major * 32) + 24>> \o BytesBE(n, 1)
    ELSE IF n < 65536 THEN <<(major * 32) + 25>> \o BytesBE(n, 2)
    ELSE <<(major * 32) + 26>> \o BytesBE(n, 4)

\* cbor2.dumps(value) and CBOREncoder.encode(value)
CborDumps(value) ==
    CASE value.k = "int" ->
            IF value.v >= 0 THEN CborHead(0, value.v) ELSE CborHead(1, (-1) - value.v)
      [] value.k = "bytes" -> CborHead(2, Len(value.v)) \o value.v
      [] value.k = "str" -> CborHead(3, Len(value.v)) \o value.v
      [] value.k = "bool" -> IF value.v THEN <<245>> ELSE <<244>>
      [] value.k = "none" -> <<246>>
      [] value.k = "float" ->
            CASE value.v.sp = "nan" -> <<249, 126, 0>>
              [] value.v.sp = "inf" -> <<249, 124, 0>>
              [] value.v.sp = "-inf" -> <<249, 252, 0>>
              [] OTHER ->
                    LET i == CHOOSE j \in 1..Len(F64Table) : F64Table[j][1] = value.v
                    IN  <<251>> \o F64Table[i][2]

RECURSIVE ValueBE(_)
\* the number a sequence of octets spells, most significant first
ValueBE(b) == IF b = <<>> THEN 0 ELSE (ValueBE(SubSeq(b, 1, Len(b) - 1)) * 256) + b[Len(b)]

\* CBORDecoder.read(n): the next n octets, or CBORDecodeEOF
CborRead(buf, pos, n) ==
    IF pos + n - 1 > Len(buf) THEN Raise("CBORDecodeEOF", pos)
    ELSE Ok(PyBytes(SubSeq(buf, pos, pos + n - 1)), pos + n)

\* a step that needs the result r of the step before it: an exception of r
\* ends the whole, otherwise it goes on with K(r)
Bind(r, K(_)) == IF r.exc # "none" THEN r ELSE K(r)

\* the argument of a head whose additional information is info
CborArg(buf, pos, info) ==
    IF info < 24 THEN Ok(PyInt(info), pos)
    ELSE IF info > 27 THEN Raise("CBORDecodeValueError", pos)
    ELSE Bind(CborRead(buf, pos, Pow(2, info - 24)), LAMBDA r :
         IF \E i \in 1..(Len(r.val.v) - 4) : r.val.v[i] # 0 THEN Raise("Unmodelled", pos)
         ELSE IF Len(r.val.v) >= 4 /\ r.val.v[Len(r.val.v) - 3] >= 128
              THEN Raise("Unmodelled", pos)
         ELSE Ok(PyInt(ValueBE(r.val.v)), r.pos))

\* a byte string (major type 2) or a text string (major type 3) of the length
\* its head gives
CborString(buf, major, arg) ==
    Bind(CborRead(buf, arg.pos, arg.val.v), LAMBDA r :
    IF major = 2 THEN r
    ELSE IF \E i \in 1..Len(r.val.v) : r.val.v[i] >= 128 THEN Raise("Unmodelled", arg.pos)
    ELSE Ok(PyStr(r.val.v), r.pos))

\* a half-precision float: NaN and the infinities
CborHalf(buf, pos) ==
    Bind(CborRead(buf, pos, 2), LAMBDA r :
    IF r.val.v = <<126, 0>> THEN Ok(PyFloat(NaN), r.pos)
    ELSE IF r.val.v = <<124, 0>> THEN Ok(PyFloat(Infinity), r.pos)
    ELSE IF r.val.v = <<252, 0>> THEN Ok(PyFloat(NegInfinity), r.pos)
    ELSE Raise("Unmodelled", pos))

\* a double-precision float
CborDouble(buf, pos) ==
    Bind(CborRead(buf, pos, 8), LAMBDA r :
    IF \E j \in 1..Len(F64Table) : F64Table[j][2] = r.val.v
    THEN Ok(PyFloat(F64Table[CHOOSE j \in 1..Len(F64Table) : F64Table[j][2] = r.val.v][1]),
            r.pos)
    ELSE Raise("Unmodelled", pos))

\* CBORDecoder.decode(): one data item read at pos
CborDecode(buf, pos) ==
    IF pos > Len(buf) THEN Raise("CBORDecodeEOF", pos)
    ELSE
    LET major == buf[pos] \div 32
        info == buf[pos] % 32
    IN  IF major \in {2, 3} /\ info = 31 THEN Raise("Unmodelled", pos)
        ELSE IF major \in {0, 1, 2, 3}
        THEN Bind(CborArg(buf, pos + 1, info), LAMBDA arg :
             IF major = 0 THEN arg
             ELSE IF major = 1 THEN Ok(PyInt((-1) - arg.val.v), arg.pos)
             ELSE CborString(buf, major, arg))
        ELSE IF major = 7 /\ info = 20 THEN Ok(PyBool(FALSE), pos + 1)
        ELSE IF major = 7 /\ info = 21 THEN Ok(PyBool(TRUE), pos + 1)
        ELSE IF major = 7 /\ info = 22 THEN Ok(None, pos + 1)
        ELSE IF major = 7 /\ info = 25 THEN CborHalf(buf, pos + 1)
        ELSE IF major = 7 /\ info = 27 THEN CborDouble(buf, pos + 1)
        ELSE Raise("Unmodelled", pos)

-----------------------------------------------------------------------------
(* ace.ari_cbor: the CBOR codec                                             *)

AriFlag == [HAS_NN |-> 128, HAS_PARAMS |-> 64, HAS_ISS |-> 32, HAS_TAG |-> 16]

TnvcFlag == [MIXED |-> 8, TYPE |-> 4, NAME |-> 2, VALUE |-> 1]

\* flags & bit, for a flag byte and a single bit
HasBit(flags, bit) == (flags \div bit) % 2 = 1

\* range(count): bool counts as int, other kinds raise TypeError (-1)
RangeLen(count) ==
    CASE count.k = "int" -> IF count.v > 0 THEN count.v ELSE 0
      [] count.k = "bool" -> IF count.v THEN 1 ELSE 0
      [] OTHER -> -1

\* StructType(value): the number of the member, or -100 for ValueError
ToStructType(value) ==
    CASE value.k = "int" /\ IsStructType(value.v) -> value.v
      [] value.k = "bool" -> IF value.v THEN StructType.CTRL ELSE StructType.CONST
      [] OTHER -> -100

RECURSIVE decode_ari(_, _), decode_ref(_, _, _), decode_tnvc(_, _), tnvc_items(_, _, _, _),
          decode_ac_items(_, _), decode_obj(_, _, _), DecodeAris(_, _, _),
          DecodeValues(_, _, _, _, _)

\* Decoder._decode_ari, the literal branch: any exception of the value's
\* decoding becomes ParseError
decode_lit(buf, pos, flags) ==
    LET Lit(val) ==
            IF val.exc = "Unmodelled" THEN val
            ELSE IF val.exc # "none" THEN Raise("ParseError", pos)
            ELSE IF ~IsStructType((flags \div 16) + StructType.BOOL)
                 THEN Raise("ValueError", pos)
            ELSE Ok(LiteralARI((flags \div 16) + StructType.BOOL, val.val), val.pos)
    IN  Lit(CborDecode(buf, pos))

\* cbordec.decode() if the flag is set else None
OptItem(has, buf, pos) == IF has THEN CborDecode(buf, pos) ELSE Ok(None, pos)

\* a name of bytes that is printable becomes text
DecodedName(name) ==
    IF name.k = "bytes" /\ is_printable(name.v) THEN PyStr(name.v) ELSE name

\* Decoder._decode_ari, the reference branch
decode_ref(buf, pos, flags) ==
    Bind(OptItem(HasBit(flags, AriFlag.HAS_NN), buf, pos), LAMBDA nn :
    Bind(CborDecode(buf, nn.pos), LAMBDA nm :
    IF nm.val.k \notin {"bytes", "str"} THEN Raise("ParseError", nn.pos)
    ELSE
    Bind(IF HasBit(flags, AriFlag.HAS_PARAMS) THEN decode_tnvc(buf, nm.pos)
         ELSE Ok(None, nm.pos), LAMBDA pr :
    Bind(OptItem(HasBit(flags, AriFlag.HAS_ISS), buf, pr.pos), LAMBDA iss :
    IF iss.val.k \notin {"none", "bytes"} THEN Raise("ParseError", pr.pos)
    ELSE
    Bind(OptItem(HasBit(flags, AriFlag.HAS_TAG), buf, iss.pos), LAMBDA tag :
    IF tag.val.k \notin {"none", "bytes"} THEN Raise("ParseError", iss.pos)
    ELSE Ok(ReferenceARI(Identity(nn.val, flags % 16, DecodedName(nm.val), iss.val,
                                  tag.val), pr.val), tag.pos))))))

\* Decoder._decode_ari
decode_ari(buf, pos) ==
    Bind(CborRead(buf, pos, 1), LAMBDA fl :
    IF ~IsStructType(fl.val.v[1] % 16) THEN Raise("ValueError", pos)
    ELSE IF fl.val.v[1] % 16 = StructType.LIT THEN decode_lit(buf, fl.pos, fl.val.v[1])
    ELSE decode_ref(buf, fl.pos, fl.val.v[1]))

RECURSIVE DecodeTypes(_, _, _)
\* the type markers of a TNVC: n octets, each a StructType
DecodeTypes(buf, pos, n) ==
    IF n = 0 THEN Ok(<<>>, pos)
    ELSE Bind(CborRead(buf, pos, 1), LAMBDA b :
         IF ~IsStructType(b.val.v[1]) THEN Raise("ValueError", pos)
         ELSE Bind(DecodeTypes(buf, b.pos, n - 1), LAMBDA rest :
              Ok(<<b.val.v[1]>> \o rest.val, rest.pos)))

\* the values of a TNVC: items idx..count-1 (0-based), by their type markers
DecodeValues(types, buf, pos, idx, count) ==
    IF idx >= count THEN Ok(<<>>, pos)
    ELSE IF idx + 1 > Len(types) THEN Raise("IndexError", pos)
    ELSE Bind(decode_obj(types[idx + 1], buf, pos), LAMBDA item :
         Bind(DecodeValues(types, buf, item.pos, idx + 1, count), LAMBDA rest :
         Ok(<<item.val>> \o rest.val, rest.pos)))

\* Decoder._decode_tnvc after the flags and the count: the list of values, as
\* a PyList
tnvc_items(buf, pos, flags, count) ==
    Bind(IF ~HasBit(flags, TnvcFlag.TYPE) THEN Ok(<<>>, pos)
         ELSE IF count < 0 THEN Raise("TypeError", pos)
         ELSE DecodeTypes(buf, pos, count), LAMBDA types :
    IF HasBit(flags, TnvcFlag.NAME) THEN Raise("NotImplementedError", pos)
    ELSE
    Bind(IF ~HasBit(flags, TnvcFlag.VALUE) THEN Ok(<<>>, types.pos)
         ELSE IF count < 0 THEN Raise("TypeError", pos)
         ELSE DecodeValues(types.val, buf, types.pos, 0, count), LAMBDA values :
    Ok(PyList(values.val), values.pos)))

\* Decoder._decode_tnvc
decode_tnvc(buf, pos) ==
    Bind(CborRead(buf, pos, 1), LAMBDA fl :
    Bind(IF fl.val.v[1] # 0 THEN CborDecode(buf, fl.pos) ELSE Ok(PyInt(0), fl.pos),
         LAMBDA cnt :
    tnvc_items(buf, cnt.pos, fl.val.v[1], RangeLen(cnt.val))))

\* n ARIs in a row
DecodeAris(buf, pos, n) ==
    IF n = 0 THEN Ok(<<>>, pos)
    ELSE Bind(decode_ari(buf, pos), LAMBDA item :
         Bind(DecodeAris(buf, item.pos, n - 1), LAMBDA rest :
         Ok(<<item.val>> \o rest.val, rest.pos)))

\* Decoder._decode_ac_items: the count is the header octet & 0x1F
decode_ac_items(buf, pos) ==
    Bind(CborRead(buf, pos, 1), LAMBDA hd : DecodeAris(buf, hd.pos, hd.val.v[1] % 32))

\* Decoder._decode_obj
decode_obj(type_enum, buf, pos) ==
    IF type_enum = StructType.ARI THEN decode_ari(buf, pos)
    ELSE IF type_enum \in {StructType.AC, StructType.EXPR}
    THEN Bind(IF type_enum = StructType.AC THEN Ok(None, pos) ELSE CborDecode(buf, pos),
              LAMBDA ty :
         IF type_enum = StructType.EXPR /\ ToStructType(ty.val) = -100
         THEN Raise("ValueError", pos)
         ELSE Bind(decode_ac_items(buf, ty.pos), LAMBDA items :
              Ok(IF type_enum = StructType.AC THEN AC(items.val)
                 ELSE EXPR(ToStructType(ty.val), items.val), items.pos)))
    ELSE IF type_enum = StructType.TNVC
    THEN Bind(decode_tnvc(buf, pos), LAMBDA items : Ok(AC(items.val.v), items.pos))
    ELSE IF type_enum \in LITERAL_TYPES
    THEN Bind(CborDecode(buf, pos), LAMBDA item :
              Ok(LiteralARI(type_enum, item.val), item.pos))
    ELSE Raise("ValueError", pos)

\* Decoder.decode: CBORDecodeEOF becomes ParseError, octets left over are
\* only warned about
cbor_decode(buf) ==
    LET Res(res) == IF res.exc = "CBORDecodeEOF" THEN Raise("ParseError", res.pos) ELSE res
    IN  Res(decode_ari(buf, 1))

\* An encoder's result is [exc, out]: the exception raised and the octets.
Out(bytes) == [exc |-> "none", out |-> bytes]
Fail(exc) == [exc |-> exc, out |-> <<>>]

\* struct.pack('!B', n): one octet, or struct.error when n is not in 0..255
PackB(n) == IF n >= 0 /\ n <= 255 THEN Out(<<n>>) ELSE Fail("struct.error")

\* a | b, for b a bit that may or may not be set in a >= 0; a negative
\* number stays negative
BitOr(a, bit) == IF a < 0 \/ HasBit(a, bit) THEN a ELSE a + bit

\* the outputs of two steps in a row: the first exception ends the encoding
Then(r1, r2) ==
    IF r1.exc # "none" THEN r1
    ELSE IF r2.exc # "none" THEN r2
    ELSE Out(r1.out \o r2.out)

\* cborenc.encode(value); the finite floats are those of F64Table
Dumps(value) ==
    IF value.k = "float" /\ value.v.sp = "fin" /\ \A j \in 1..Len(F64Table) : F64Table[j][1] # value.v
    THEN Fail("Unmodelled")
    ELSE Out(CborDumps(value))

RECURSIVE encode_obj(_, _), encode_ref_ari(_), encode_tnvc(_), EncodeRefAris(_),
          EncodeTypes(_), EncodeValues(_)

\* for ari in items: self._encode_ref_ari(ari, cborenc)
EncodeRefAris(items) ==
    IF items = <<>> THEN Out(<<>>)
    ELSE Then(encode_ref_ari(Head(items)), EncodeRefAris(Tail(items)))

\* Encoder._encode_obj
encode_obj(obj, as_ari) ==
    CASE obj.cls = "ReferenceARI" -> encode_ref_ari(obj)
      [] obj.cls = "AC" ->
            Then(PackB(BitOr(Len(obj.items), 128)), EncodeRefAris(obj.items))
      [] obj.cls = "EXPR" ->
            Then(Out(CborDumps(PyInt(obj.type_enum))),
                 Then(PackB(BitOr(Len(obj.items), 128)), EncodeRefAris(obj.items)))
      [] obj.cls = "TNVC" -> encode_tnvc(obj.items)
      [] obj.cls = "LiteralARI" ->
            Then(IF obj.type_enum # StructType.BSTR /\ as_ari
                 THEN PackB(((obj.type_enum - StructType.BOOL) * 16) + StructType.LIT)
                 ELSE Out(<<>>),
                 Dumps(obj.value))
      [] OTHER -> Fail("TypeError")

\* Encoder._encode_ref_ari: an object without ident raises AttributeError
encode_ref_ari(obj) ==
    IF obj.cls # "ReferenceARI" THEN Fail("AttributeError")
    ELSE
    LET f0 == obj.ident.type_enum
        f1 == IF obj.ident.namespace # None THEN BitOr(f0, AriFlag.HAS_NN) ELSE f0
        f2 == IF obj.params # None THEN BitOr(f1, AriFlag.HAS_PARAMS) ELSE f1
        f3 == IF obj.ident.issuer # None THEN BitOr(f2, AriFlag.HAS_ISS) ELSE f2
        flags == IF obj.ident.tag # None THEN BitOr(f3, AriFlag.HAS_TAG) ELSE f3
        name == IF obj.ident.name.k = "bytes" THEN obj.ident.name
                ELSE PyBytes(obj.ident.name.v)
    IN  Then(PackB(flags),
        Then(IF obj.ident.namespace # None THEN Out(CborDumps(obj.ident.namespace))
             ELSE Out(<<>>),
        Then(Out(CborDumps(name)),
        Then(IF obj.params # None THEN encode_tnvc(obj.params.v) ELSE Out(<<>>),
        Then(IF obj.ident.issuer # None THEN Out(CborDumps(obj.ident.issuer)) ELSE Out(<<>>),
             IF obj.ident.tag # None THEN Out(CborDumps(obj.ident.tag)) ELSE Out(<<>>))))))

\* the type marker of each parameter
EncodeTypes(params) ==
    IF params = <<>> THEN Out(<<>>)
    ELSE LET param == Head(params)
             type_enum == CASE param.cls = "ReferenceARI" -> StructType.ARI
                            [] param.cls = "AC" -> StructType.AC
                            [] param.cls = "EXPR" -> StructType.EXPR
                            [] param.cls = "TNVC" -> StructType.TNVC
                            [] param.cls = "LiteralARI" -> param.type_enum
         IN  Then(PackB(type_enum), EncodeTypes(Tail(params)))

\* the value of each parameter, as_ari=False
EncodeValues(params) ==
    IF params = <<>> THEN Out(<<>>)
    ELSE Then(encode_obj(Head(params), FALSE), EncodeValues(Tail(params)))

\* Encoder._encode_tnvc
encode_tnvc(params) ==
    LET flags == IF params # <<>> THEN TnvcFlag.TYPE + TnvcFlag.VALUE ELSE 0
    IN  Then(PackB(flags),
        Then(IF flags # 0 THEN Out(CborDumps(PyInt(Len(params)))) ELSE Out(<<>>),
        Then(EncodeTypes(params), EncodeValues(params))))

\* Encoder.encode
cbor_encode(obj) == encode_obj(obj, TRUE)

-----------------------------------------------------------------------------
(* ace.ari_text.lexmod: the lexer.  The rules are tried in the order of the *)
(* master pattern (the function rules in definition order, then the string  *)
(* rules), each matching as its regular expression does under IGNORECASE;   *)
(* a matcher gives the position after the match, or 0 when there is none.   *)

\* the end of the longest run of characters satisfying P that starts at pos
RunEnd(text, pos, P(_)) ==
    CHOOSE e \in pos..(Len(text) + 1) :
        /\ \A i \in pos..(e - 1) : P(text[i])
        /\ (e = Len(text) + 1 \/ ~P(text[e]))

\* a literal word at pos, compared without case
MatchWord(text, pos, word) ==
    IF /\ pos + Len(word) - 1 <= Len(text)
       /\ \A i \in 1..Len(word) : Fold(text[pos + i - 1]) = Fold(word[i])
    THEN pos + Len(word) ELSE 0

IsSign(text, pos) == pos <= Len(text) /\ text[pos] \in {Ord("+"), Ord("-")}

\* (MDAT|CONST|...) at pos followed by the character after: the member, or ""
MatchType(text, pos, after) ==
    LET Pick(hits) == IF hits = {} THEN "" ELSE CHOOSE f \in hits : TRUE
        Ends(e) == e # 0 /\ e <= Len(text) /\ text[e] = after
    IN  Pick({f \in DOMAIN StructType : Ends(MatchWord(text, pos, StructTypeNames[f]))})

\* [eE][+-]?\d+ at pos
MatchExponent(text, pos) ==
    IF pos <= Len(text) /\ Fold(text[pos]) = Ord("e")
    THEN LET q == IF IsSign(text, pos + 1) THEN pos + 2 ELSE pos + 1
             r == RunEnd(text, q, IsDigit)
         IN  IF r > q THEN r ELSE 0
    ELSE 0

\* t_FLOAT: [+-]?((\d+|\d*\.\d*)([eE][+-]?\d+)|\d*\.\d*|Infinity)|NaN
MatchFloat(text, pos) ==
    LET s == IF IsSign(text, pos) THEN pos + 1 ELSE pos
        d1 == RunEnd(text, s, IsDigit)
        hasdot == d1 <= Len(text) /\ text[d1] = Ord(".")
        d2 == IF hasdot THEN RunEnd(text, d1 + 1, IsDigit) ELSE 0
        inf == MatchWord(text, s, T(<<"I", "n", "f", "i", "n", "i", "t", "y">>))
    IN  IF d1 > s /\ MatchExponent(text, d1) # 0 THEN MatchExponent(text, d1)
        ELSE IF hasdot /\ MatchExponent(text, d2) # 0 THEN MatchExponent(text, d2)
        ELSE IF hasdot THEN d2
        ELSE IF inf # 0 THEN inf
        ELSE MatchWord(text, pos, T(<<"N", "a", "N">>))

\* t_INT: [+-]?(0b[01]+|0x[0-9a-fA-F]+|\d+)
MatchInt(text, pos) ==
    LET s == IF IsSign(text, pos) THEN pos + 1 ELSE pos
        bin == IF MatchWord(text, s, T(<<"0", "b">>)) # 0
               THEN RunEnd(text, s + 2, IsBinDigit) ELSE 0
        hex == IF MatchWord(text, s, T(<<"0", "x">>)) # 0
               THEN RunEnd(text, s + 2, IsHexDigit) ELSE 0
        dec == RunEnd(text, s, IsDigit)
    IN  IF bin > s + 2 THEN bin
        ELSE IF hex > s + 2 THEN hex
        ELSE IF dec > s THEN dec
        ELSE 0

\* a quote, characters other than the quote, and the quote again
MatchQuoted(text, pos, quote) ==
    IF pos <= Len(text) /\ text[pos] = quote
    THEN LET NotQuote(c) == c # quote
             e == RunEnd(text, pos + 1, NotQuote)
         IN  IF e <= Len(text) THEN e + 1 ELSE 0
    ELSE 0

\* the encoding prefix of t_BSTR, (h|b32|h32|b64)?, that leads to a match
BstrPrefix(text, pos) ==
    LET Try(word) == MatchWord(text, pos, word) # 0
                     /\ MatchQuoted(text, pos + Len(word), Ord("'")) # 0
    IN  IF Try(T(<<"h">>)) THEN T(<<"h">>)
        ELSE IF Try(T(<<"b", "3", "2">>)) THEN T(<<"b", "3", "2">>)
        ELSE IF Try(T(<<"h", "3", "2">>)) THEN T(<<"h", "3", "2">>)
        ELSE IF Try(T(<<"b", "6", "4">>)) THEN T(<<"b", "6", "4">>)
        ELSE <<>>

\* t_NAME: [a-zA-Z][^/\(\)\[\],\s]+
IsNameChar(c) ==
    c \notin {Ord("/"), Ord("("), Ord(")"), Ord("["), Ord("]"), Ord(","), 32, 9, 10, 11, 12, 13}

MatchName(text, pos) ==
    IF pos <= Len(text) /\ IsAlpha(text[pos])
    THEN LET e == RunEnd(text, pos + 1, IsNameChar)
         IN  IF e > pos + 1 THEN e ELSE 0
    ELSE 0

\* int(text, 0) of a matched t_INT: a sign, then binary, hexadecimal or
\* decimal digits; decimal digits with a leading zero are refused unless all
\* are zero.  Numbers beyond 9 digits are not modelled.
ParseInt(text) ==
    LET s == IF IsSign(text, 1) THEN 2 ELSE 1
        sign == IF text[1] = Ord("-") THEN -1 ELSE 1
        body == SubSeq(text, s, Len(text))
        digits == SubSeq(body, 3, Len(body))
        RECURSIVE Value(_, _)
        Value(ds, base) ==
            IF ds = <<>> THEN 0
            ELSE (Value(SubSeq(ds, 1, Len(ds) - 1), base) * base) + HexValue(ds[Len(ds)])
    IN  IF MatchWord(body, 1, T(<<"0", "b">>)) # 0
        THEN IF Len(digits) > 30 THEN Raise("Unmodelled", 0)
             ELSE Ok(PyInt(sign * Value(digits, 2)), 0)
        ELSE IF MatchWord(body, 1, T(<<"0", "x">>)) # 0
        THEN IF Len(digits) > 7 THEN Raise("Unmodelled", 0)
             ELSE Ok(PyInt(sign * Value(digits, 16)), 0)
        ELSE IF Len(body) > 1 /\ body[1] = 48 /\ \E i \in 1..Len(body) : body[i] # 48
        THEN Raise("ValueError", 0)
        ELSE IF Len(body) > 9 THEN Raise("Unmodelled", 0)
        ELSE Ok(PyInt(sign * DecValue(body)), 0)

RECURSIVE Normalize(_, _)
\* the finite decimal m * 10**e with no trailing zero in m
Normalize(m, e) ==
    IF m = 0 THEN Float(0, 0)
    ELSE IF m % 10 = 0 THEN Normalize(m \div 10, e + 1)
    ELSE Float(m, e)

\* the float of the digits (whole and fractional part together, nfrac of them
\* fractional) and the exponent digits
FloatOf(neg, digits, nfrac, edigits, eneg) ==
    LET Num(m, exp) ==
            IF (neg /\ m = 0) \/ Len(digits) + exp - nfrac > 9 THEN Raise("Unmodelled", 0)
            ELSE Ok(PyFloat(Normalize(IF neg THEN 0 - m ELSE m, exp - nfrac)), 0)
    IN  IF digits = <<>> THEN Raise("ValueError", 0)
        ELSE IF Len(digits) > 9 \/ Len(edigits) > 2 THEN Raise("Unmodelled", 0)
        ELSE Num(DecValue(digits), IF eneg THEN 0 - DecValue(edigits) ELSE DecValue(edigits))

\* the parts of a number without its sign; d1 is the end of its first digits
FloatParts(neg, body, d1) ==
    LET hasdot == d1 <= Len(body) /\ body[d1] = Ord(".")
        Parts(d2) ==
            FloatOf(neg,
                    SubSeq(body, 1, d1 - 1)
                        \o (IF hasdot THEN SubSeq(body, d1 + 1, d2 - 1) ELSE <<>>),
                    IF hasdot THEN d2 - d1 - 1 ELSE 0,
                    IF d2 > Len(body) THEN <<>>
                    ELSE SubSeq(body, IF IsSign(body, d2 + 1) THEN d2 + 2 ELSE d2 + 1, Len(body)),
                    d2 + 1 <= Len(body) /\ body[d2 + 1] = Ord("-"))
    IN  Parts(IF hasdot THEN RunEnd(body, d1 + 1, IsDigit) ELSE d1)

\* float(text) of a matched t_FLOAT.  Mantissas beyond 9 digits, exponents
\* beyond 2 digits, numbers of 10**9 and more and the negative zero are not
\* modelled.
ParseFloat(text) ==
    LET Body(neg, body) ==
            IF casefold(body) = T(<<"i", "n", "f", "i", "n", "i", "t", "y">>)
            THEN Ok(PyFloat(IF neg THEN NegInfinity ELSE Infinity), 0)
            ELSE FloatParts(neg, body, RunEnd(body, 1, IsDigit))
    IN  IF casefold(text) = T(<<"n", "a", "n">>) THEN Ok(PyFloat(NaN), 0)
        ELSE Body(text[1] = Ord("-"), SubSeq(text, IF IsSign(text, 1) THEN 2 ELSE 1, Len(text)))

RECURSIVE UnHex(_)
\* binascii.unhexlify of an even number of hexadecimal digits
UnHex(text) ==
    IF text = <<>> THEN <<>>
    ELSE <<(HexValue(text[1]) * 16) + HexValue(text[2])>> \o UnHex(SubSeq(text, 3, Len(text)))

\* the value of t_BSTR, by the encoding prefix as it is written
BstrValue(enc, val) ==
    IF enc = T(<<"h">>)
    THEN IF (\E i \in 1..Len(val) : ~IsHexDigit(val[i])) \/ Len(val) % 2 = 1
         THEN Raise("binascii.Error", 0)
         ELSE Ok(PyBytes(UnHex(val)), 0)
    ELSE IF enc = T(<<"h", "3", "2">>) THEN Raise("NotImplementedError", 0)
    ELSE IF enc \in {T(<<"b", "3", "2">>), T(<<"b", "6", "4">>)} THEN Raise("Unmodelled", 0)
    ELSE Ok(PyBytes(val), 0)

\* a token [type, value, end]; "$raise" carries the exception of a rule's
\* function in value, "$illegal" is a character no rule matches
Token(type, value, end) == [type |-> type, value |-> value, end |-> end]

Conv(type, res, end) ==
    IF res.exc = "none" THEN Token(type, res.val, end) ELSE Token("$raise", res.exc, end)

NoToken == Token("", None, 0)

\* the token made of a rule's match from pos to before end (end = 0: no match)
Matched(type, text, pos, end, Value(_)) ==
    IF end = 0 THEN NoToken ELSE Conv(type, Value(SubSeq(text, pos, end - 1)), end)

\* the token of a type name matched with `extra` more characters around it
TypeToken(type, member, pos, extra) ==
    IF member = "" THEN NoToken
    ELSE Token(type, StructType[member], pos + Len(StructTypeNames[member]) + extra)

\* t_ARI_PREFIX: ari:
t_ARI_PREFIX(text, pos) ==
    IF MatchWord(text, pos, T(<<"a", "r", "i", ":">>)) # 0
    THEN Token("ARI_PREFIX", None, pos + 4) ELSE NoToken

\* t_TYPENAME: \((MDAT|...)\)
t_TYPENAME(text, pos) ==
    IF text[pos] # Ord("(") THEN NoToken
    ELSE TypeToken("TYPENAME", MatchType(text, pos + 1, Ord(")")), pos, 2)

\* t_TYPEDOT: (MDAT|...)\.
t_TYPEDOT(text, pos) == TypeToken("TYPEDOT", MatchType(text, pos, Ord(".")), pos, 1)

\* t_BOOL: true|false, the value being (tok.value == 'true')
t_BOOL(text, pos) ==
    IF MatchWord(text, pos, T(<<"t", "r", "u", "e">>)) # 0
    THEN Token("BOOL", PyBool(SubSeq(text, pos, pos + 3) = T(<<"t", "r", "u", "e">>)), pos + 4)
    ELSE IF MatchWord(text, pos, T(<<"f", "a", "l", "s", "e">>)) # 0
    THEN Token("BOOL", PyBool(FALSE), pos + 5)
    ELSE NoToken

t_FLOAT(text, pos) == Matched("FLOAT", text, pos, MatchFloat(text, pos), ParseFloat)

t_INT(text, pos) == Matched("INT", text, pos, MatchInt(text, pos), ParseInt)

\* t_TSTR: the text between the quotes
t_TSTR(text, pos) ==
    Matched("TSTR", text, pos, MatchQuoted(text, pos, 34),
            LAMBDA s : Ok(PyStr(SubSeq(s, 2, Len(s) - 1)), 0))

\* t_BSTR: the encoding as it is written, and the text between the quotes
t_BSTR(text, pos) ==
    LET Enc(n) ==
            Matched("BSTR", text, pos, MatchQuoted(text, pos + n, Ord("'")),
                    LAMBDA s : BstrValue(SubSeq(s, 1, n), SubSeq(s, n + 2, Len(s) - 1)))
    IN  Enc(Len(BstrPrefix(text, pos)))

t_NAME(text, pos) ==
    Matched("NAME", text, pos, MatchName(text, pos), LAMBDA s : Ok(PyStr(s), 0))

\* the string rules, one character each; "$illegal" when no rule matches
Single(text, pos) ==
    LET c == text[pos]
    IN  Token(CASE c = Ord("(") -> "LPAREN" [] c = Ord(")") -> "RPAREN"
                [] c = Ord("[") -> "LSQRB" [] c = Ord("]") -> "RSQRB"
                [] c = Ord("/") -> "SLASH" [] c = Ord(",") -> "COMMA"
                [] OTHER -> "$illegal",
              None, pos + 1)

\* the first of two rules of the master pattern that matches
OrElse(tok, other) == IF tok.type # "" THEN tok ELSE other

\* the token of the first rule of the master pattern that matches at pos
NextToken(text, pos) ==
    OrElse(t_ARI_PREFIX(text, pos),
    OrElse(t_TYPENAME(text, pos),
    OrElse(t_TYPEDOT(text, pos),
    OrElse(t_BOOL(text, pos),
    OrElse(t_FLOAT(text, pos),
    OrElse(t_INT(text, pos),
    OrElse(t_TSTR(text, pos),
    OrElse(t_BSTR(text, pos),
    OrElse(t_NAME(text, pos),
           Single(text, pos))))))))))

RECURSIVE Lex(_, _)
\* the tokens of text from pos on: ignored characters and illegal characters
\* are skipped, an exception of a rule's function ends the sequence
Lex(text, pos) ==
    LET Emit(tok) ==
            IF tok.type = "$illegal" THEN Lex(text, pos + 1)
            ELSE IF tok.type = "$raise" THEN <<tok>>
            ELSE <<tok>> \o Lex(text, tok.end)
    IN  IF pos > Len(text) THEN <<>>
        ELSE IF text[pos] \in {32, 9, 10} THEN Lex(text, pos + 1)
        ELSE Emit(NextToken(text, pos))

-----------------------------------------------------------------------------
(* ace.ari_text.parsemod: the grammar, read by recursive descent over the   *)
(* tokens.  A result is [exc, val, pos] with pos the index of the next      *)
(* token.  The parser asks the lexer for one token at a time, so a token    *)
(* whose rule raised counts only when the parser gets to it.                *)

TokAt(toks, i) == IF i > Len(toks) THEN Token("$end", None, 0) ELSE toks[i]

\* p_error, or the exception the lexer raised when asked for token i
SyntaxError(toks, i) ==
    IF TokAt(toks, i).type = "$raise" THEN Raise(TokAt(toks, i).value, i)
    ELSE Raise("RuntimeError", i)

\* p_litvalue_bool, _int, _float, _tstr, _bstr
p_litvalue(toks, i) ==
    LET tok == TokAt(toks, i)
    IN  CASE tok.type = "BOOL" -> Ok(LiteralARI(StructType.BOOL, tok.value), i + 1)
          [] tok.type = "INT" -> Ok(LiteralARI(StructType.VAST, tok.value), i + 1)
          [] tok.type = "FLOAT" -> Ok(LiteralARI(StructType.REAL64, tok.value), i + 1)
          [] tok.type = "TSTR" -> Ok(LiteralARI(StructType.STR, tok.value), i + 1)
          [] tok.type = "BSTR" -> Ok(LiteralARI(StructType.BSTR, tok.value), i + 1)
          [] OTHER -> SyntaxError(toks, i)

\* p_literal_without_type and p_literal_with_type; the reduction is made with
\* the next token in hand
p_literal(toks, i) ==
    IF TokAt(toks, i).type # "TYPEDOT" THEN p_litvalue(toks, i)
    ELSE Bind(p_litvalue(toks, i + 1), LAMBDA lv :
         IF TokAt(toks, lv.pos).type = "$raise" THEN SyntaxError(toks, lv.pos)
         ELSE IF check_type(LiteralARI(TokAt(toks, i).value, lv.val.value)) # "none"
              THEN Raise("RuntimeError", lv.pos)
         ELSE Ok(LiteralARI(TokAt(toks, i).value, lv.val.value), lv.pos))

\* p_objid_bstr and p_objid_name
p_objid(toks, i) ==
    LET tok == TokAt(toks, i)
    IN  CASE tok.type = "BSTR" ->
                Ok(IF is_printable(tok.value.v) THEN PyStr(tok.value.v) ELSE tok.value, i + 1)
          [] tok.type = "NAME" -> Ok(tok.value, i + 1)
          [] OTHER -> SyntaxError(toks, i)

\* TYPEDOT objid, the end of every ident rule
TypedObjid(toks, i, namespace) ==
    IF TokAt(toks, i).type # "TYPEDOT" THEN SyntaxError(toks, i)
    ELSE Bind(p_objid(toks, i + 1), LAMBDA name :
         Ok(Identity(namespace, TokAt(toks, i).value, name.val, None, None), name.pos))

\* p_ident_with_ns, p_ident_empty_ns, p_ident_without_ns
p_ident(toks, i) ==
    LET with_ns == TokAt(toks, i + 1).type \in {"INT", "NAME"}
    IN  IF TokAt(toks, i).type # "SLASH" THEN SyntaxError(toks, i)
        ELSE IF with_ns /\ TokAt(toks, i + 2).type # "SLASH" THEN SyntaxError(toks, i + 2)
        ELSE TypedObjid(toks,
                        IF with_ns THEN i + 3
                        ELSE IF TokAt(toks, i + 1).type = "SLASH" THEN i + 2
                        ELSE i + 1,
                        IF with_ns THEN TokAt(toks, i + 1).value ELSE None)

RECURSIVE p_ari(_, _), p_ssp(_, _), p_paramlist(_, _), p_paramitem(_, _), p_aclist(_, _)

\* p_ari_explicit and p_ari_literal
p_ari(toks, i) ==
    IF TokAt(toks, i).type = "ARI_PREFIX" THEN p_ssp(toks, i + 1) ELSE p_literal(toks, i)

\* p_ssp_literal, p_ssp_without_params, p_ssp_empty_params, p_ssp_with_params
p_ssp(toks, i) ==
    IF TokAt(toks, i).type # "SLASH" THEN p_literal(toks, i)
    ELSE Bind(p_ident(toks, i), LAMBDA ident :
         IF TokAt(toks, ident.pos).type = "$raise" THEN SyntaxError(toks, ident.pos)
         ELSE IF TokAt(toks, ident.pos).type # "LPAREN"
         THEN Ok(ReferenceARI(ident.val, None), ident.pos)
         ELSE IF TokAt(toks, ident.pos + 1).type = "RPAREN"
         THEN Ok(ReferenceARI(ident.val, PyList(<<>>)), ident.pos + 2)
         ELSE Bind(p_paramlist(toks, ident.pos + 1), LAMBDA params :
              IF TokAt(toks, params.pos).type # "RPAREN" THEN SyntaxError(toks, params.pos)
              ELSE Ok(ReferenceARI(ident.val, PyList(params.val)), params.pos + 1)))

\* p_paramlist_end and p_paramlist_join
p_paramlist(toks, i) ==
    Bind(p_paramitem(toks, i), LAMBDA item :
    IF TokAt(toks, item.pos).type # "COMMA" THEN Ok(<<item.val>>, item.pos)
    ELSE Bind(p_paramlist(toks, item.pos + 1), LAMBDA rest :
         Ok(<<item.val>> \o rest.val, rest.pos)))

\* p_paramitem_ari, _acempty, _expr, _aclist
p_paramitem(toks, i) ==
    LET tok == TokAt(toks, i)
        open == IF tok.type = "TYPENAME" THEN i + 1 ELSE i
    IN  IF tok.type \notin {"TYPENAME", "LSQRB"} THEN p_ari(toks, i)
        ELSE IF TokAt(toks, open).type # "LSQRB" THEN SyntaxError(toks, open)
        ELSE IF tok.type = "LSQRB" /\ TokAt(toks, i + 1).type = "RSQRB"
        THEN Ok(AC(<<>>), i + 2)
        ELSE Bind(p_aclist(toks, open + 1), LAMBDA list :
             IF TokAt(toks, list.pos).type # "RSQRB" THEN SyntaxError(toks, list.pos)
             ELSE IF tok.type = "TYPENAME" THEN Ok(EXPR(tok.value, list.val), list.pos + 1)
             ELSE Ok(AC(list.val), list.pos + 1))

\* p_aclist_end and p_aclist_join: the items
p_aclist(toks, i) ==
    Bind(p_ari(toks, i), LAMBDA item :
    IF TokAt(toks, item.pos).type # "COMMA" THEN Ok(<<item.val>>, item.pos)
    ELSE Bind(p_aclist(toks, item.pos + 1), LAMBDA rest :
         Ok(<<item.val>> \o rest.val, rest.pos)))

-----------------------------------------------------------------------------
(* ace.ari_text: the text codec                                             *)

\* Decoder.decode: the parser's RuntimeError becomes ParseError, every other
\* exception passes through
text_decode(text) ==
    LET Parsed(toks) ==
            LET End(res) == IF res.exc = "none" /\ TokAt(toks, res.pos).type # "$end"
                            THEN SyntaxError(toks, res.pos) ELSE res
                Final(end) == IF end.exc = "RuntimeError" THEN Raise("ParseError", end.pos)
                              ELSE end
            IN  Final(End(p_ari(toks, 1)))
    IN  Parsed(Lex(text, 1))

\* n zeros, as text
Zeros(n) == [i \in 1..n |-> 48]

\* repr(float) of a finite decimal m * 10**e whose m has no trailing zero: the
\* shortest digits, positional while 1e-4 <= |x| < 1e16
FloatText(f) ==
    LET d == DecDigits(IF f.m < 0 THEN 0 - f.m ELSE f.m)
        n == Len(d)
        decpt == n + f.e
        sign == IF f.m < 0 THEN <<Ord("-")>> ELSE <<>>
        exp10 == decpt - 1
        expText == IF exp10 < 0
                   THEN <<Ord("-")>> \o (IF 0 - exp10 < 10 THEN <<48>> ELSE <<>>)
                        \o DecDigits(0 - exp10)
                   ELSE <<Ord("+")>> \o (IF exp10 < 10 THEN <<48>> ELSE <<>>) \o DecDigits(exp10)
    IN  IF f.m = 0 THEN T(<<"0", ".", "0">>)
        ELSE IF decpt > 16 \/ decpt < -3
        THEN sign \o <<d[1]>> \o (IF n > 1 THEN <<Ord(".")>> \o SubSeq(d, 2, n) ELSE <<>>)
             \o <<Ord("e")>> \o expText
        ELSE IF f.e >= 0 THEN sign \o d \o Zeros(f.e) \o T(<<".", "0">>)
        ELSE IF decpt > 0 THEN sign \o SubSeq(d, 1, decpt) \o <<Ord(".")>> \o SubSeq(d, decpt + 1, n)
        ELSE sign \o T(<<"0", ".">>) \o Zeros(0 - decpt) \o d

\* ace.cborutil.to_diag
to_diag(val) ==
    CASE val.k = "none" -> T(<<"n", "u", "l", "l">>)
      [] val.k = "bool" -> IF val.v THEN T(<<"t", "r", "u", "e">>)
                           ELSE T(<<"f", "a", "l", "s", "e">>)
      [] val.k = "int" -> IntText(val.v)
      [] val.k = "float" ->
            IF val.v.sp = "nan" THEN T(<<"N", "a", "N">>)
            ELSE IF val.v.sp = "inf" THEN T(<<"I", "n", "f", "i", "n", "i", "t", "y">>)
            ELSE IF val.v.sp = "-inf"
            THEN T(<<"-", "I", "n", "f", "i", "n", "i", "t", "y">>)
            ELSE FloatText(val.v)
      [] val.k = "str" -> <<34>> \o val.v \o <<34>>
      [] val.k = "bytes" -> T(<<"h", "'">>) \o HexText(val.v) \o T(<<"'">>)

\* bool(value) of a namespace or a name: None, 0 and the empty string are false
Truthy(value) ==
    CASE value.k = "none" -> FALSE
      [] value.k = "int" -> value.v # 0
      [] value.k = "bool" -> value.v
      [] OTHER -> value.v # <<>>

\* f'{value}' of a namespace or a name held as text or as int
Format(value) == IF value.k = "int" THEN IntText(value.v) ELSE value.v

RECURSIVE text_encode(_), encode_list(_, _, _, _)

\* Encoder._encode_list
encode_list(items, begin, end, first) ==
    IF items = <<>> THEN Out(IF first THEN begin \o end ELSE end)
    ELSE Then(Out(IF first THEN begin ELSE <<Ord(",")>>),
         Then(text_encode(Head(items)), encode_list(Tail(items), begin, end, FALSE)))

\* Encoder.encode
text_encode(obj) ==
    CASE obj.cls = "AC" -> encode_list(obj.items, <<Ord("[")>>, <<Ord("]")>>, TRUE)
      [] obj.cls = "EXPR" ->
            Then(Out(<<Ord("(")>> \o StructTypeNames[MemberOf(obj.type_enum)] \o <<Ord(")")>>),
                 encode_list(obj.items, <<Ord("[")>>, <<Ord("]")>>, TRUE))
      [] obj.cls = "LiteralARI" ->
            Out((IF obj.type_enum \in LITERAL_LABEL_TYPES
                 THEN StructTypeNames[MemberOf(obj.type_enum)] \o <<Ord(".")>> ELSE <<>>)
                \o to_diag(obj.value))
      [] obj.cls = "ReferenceARI" ->
            LET name == IF obj.ident.name.k = "bytes" THEN to_diag(obj.ident.name)
                        ELSE Format(obj.ident.name)
            IN  Then(Out(T(<<"a", "r", "i", ":">>)),
                Then(Out(IF Truthy(obj.ident.namespace)
                         THEN <<Ord("/")>> \o Format(obj.ident.namespace) ELSE <<>>),
                Then(Out(IF Truthy(obj.ident.name)
                         THEN <<Ord("/")>> \o StructTypeNames[MemberOf(obj.ident.type_enum)]
                              \o <<Ord(".")>> \o name
                         ELSE <<>>),
                     IF obj.params # None
                     THEN encode_list(obj.params.v, <<Ord("(")>>, <<Ord(")")>>, TRUE)
                     ELSE Out(<<>>))))
      [] OTHER -> Fail("TypeError")

-----------------------------------------------------------------------------
(* ace.adm_json: the ADM decoder.  A JSON document is a tree of values: an  *)
(* object is its list of (key, value) pairs, JObj(pairs), an array a PyList.*)
(* json.load gives a dict for each object, here a function from key text.   *)

JObj(pairs) == [k |-> "obj", v |-> pairs]
PyDict(f) == [k |-> "dict", v |-> f]

\* Decoder._read_keys_insensitive: the keys casefolded, the last pair of a
\* key winning
read_keys_insensitive(pairs) ==
    [key \in {casefold(pairs[i][1]) : i \in 1..Len(pairs)} |->
        pairs[CHOOSE i \in 1..Len(pairs) :
                /\ casefold(pairs[i][1]) = key
                /\ \A j \in (i + 1)..Len(pairs) : casefold(pairs[j][1]) # key][2]]

RECURSIVE JsonLoad(_)
\* json.load(buf, object_pairs_hook=Decoder._read_keys_insensitive)
JsonLoad(j) ==
    CASE j.k = "obj" ->
            PyDict(read_keys_insensitive(
                [i \in 1..Len(j.v) |-> <<j.v[i][1], JsonLoad(j.v[i][2])>>]))
      [] j.k = "list" -> PyList([i \in 1..Len(j.v) |-> JsonLoad(j.v[i])])
      [] OTHER -> j

\* dict.get(key, default)
DictGet(d, key, default) == IF key \in DOMAIN d.v THEN d.v[key] ELSE default

KeyName == T(<<"n", "a", "m", "e">>)
KeyEnum == T(<<"e", "n", "u", "m">>)
KeyType == T(<<"t", "y", "p", "e">>)
KeyValue == T(<<"v", "a", "l", "u", "e">>)
KeyUses == T(<<"u", "s", "e", "s">>)
KeyNamespace == T(<<"n", "a", "m", "e", "s", "p", "a", "c", "e">>)
KeyParmspec == T(<<"p", "a", "r", "m", "s", "p", "e", "c">>)
KeyColumns == T(<<"c", "o", "l", "u", "m", "n", "s">>)
KeyDescription == T(<<"d", "e", "s", "c", "r", "i", "p", "t", "i", "o", "n">>)
KeyAction == T(<<"a", "c", "t", "i", "o", "n">>)
KeyDefinition == T(<<"d", "e", "f", "i", "n", "i", "t", "i", "o", "n">>)
KeyInitializer == T(<<"i", "n", "i", "t", "i", "a", "l", "i", "z", "e", "r">>)
KeyResultType == T(<<"r", "e", "s", "u", "l", "t", "-", "t", "y", "p", "e">>)
KeyInType == T(<<"i", "n", "-", "t", "y", "p", "e">>)
KeyPostfix == T(<<"p", "o", "s", "t", "f", "i", "x", "-", "e", "x", "p", "r">>)
KeyNs == T(<<"n", "s">>)
KeyNm == T(<<"n", "m">>)
KeyAp == T(<<"a", "p">>)

\* the ORM classes of the ADM objects, in the order Decoder.decode reads them
OrmClasses == <<"Mdat", "Const", "Ctrl", "Edd", "Mac", "Oper", "Rptt", "Tblt", "Var">>

\* SECNAMES: the JSON key of each class
SECNAMES ==
    [ Mdat |-> T(<<"M", "d", "a", "t">>), Const |-> T(<<"C", "o", "n", "s", "t">>),
      Ctrl |-> T(<<"C", "t", "r", "l">>), Edd |-> T(<<"E", "d", "d">>),
      Mac |-> T(<<"M", "a", "c">>), Oper |-> T(<<"O", "p", "e", "r">>),
      Rptt |-> T(<<"R", "p", "t", "t">>), Tblt |-> T(<<"T", "b", "l", "t">>),
      Var |-> T(<<"V", "a", "r">>) ]

\* ATTRMAP: the JSON keys read for each class
ATTRMAP ==
    [ Mdat |-> <<KeyName, KeyEnum, KeyDescription, KeyType, KeyValue>>,
      Const |-> <<KeyName, KeyEnum, KeyDescription, KeyType, KeyValue>>,
      Ctrl |-> <<KeyName, KeyEnum, KeyDescription, KeyParmspec>>,
      Edd |-> <<KeyName, KeyEnum, KeyDescription, KeyParmspec, KeyType>>,
      Mac |-> <<KeyName, KeyEnum, KeyDescription, KeyParmspec, KeyAction>>,
      Oper |-> <<KeyName, KeyEnum, KeyDescription, KeyResultType, KeyInType>>,
      Rptt |-> <<KeyName, KeyEnum, KeyDescription, KeyParmspec, KeyDefinition>>,
      Tblt |-> <<KeyName, KeyEnum, KeyDescription, KeyColumns>>,
      Var |-> <<KeyName, KeyEnum, KeyDescription, KeyType, KeyInitializer>> ]

\* attr_to_member
attr_to_member(name) == [i \in 1..Len(name) |-> IF name[i] = Ord("-") THEN Ord("_") ELSE name[i]]

\* the TypeNameList of a parmspec or columns value: KeyError when an item
\* lacks its type or its name
TypeNameList(json_val) ==
    IF \E i \in 1..Len(json_val.v) :
            KeyType \notin DOMAIN json_val.v[i].v \/ KeyName \notin DOMAIN json_val.v[i].v
    THEN Raise("KeyError", 0)
    ELSE Ok([cls |-> "TypeNameList",
             items |-> [i \in 1..Len(json_val.v) |->
                           [type |-> json_val.v[i].v[KeyType],
                            name |-> json_val.v[i].v[KeyName]]]], 0)

\* the ARI of one JSON object of an AC: KeyError when it lacks ns or nm, or
\* when one of its ap lacks type or value
get_ari(json_obj) ==
    LET Made(ap) ==
            IF \E i \in 1..Len(ap) : KeyType \notin DOMAIN ap[i].v \/ KeyValue \notin DOMAIN ap[i].v
            THEN Raise("KeyError", 0)
            ELSE Ok([cls |-> "ARI", ns |-> json_obj.v[KeyNs], nm |-> json_obj.v[KeyNm],
                     ap |-> [i \in 1..Len(ap) |->
                                [type |-> ap[i].v[KeyType], value |-> ap[i].v[KeyValue]]]], 0)
    IN  IF KeyNs \notin DOMAIN json_obj.v \/ KeyNm \notin DOMAIN json_obj.v
        THEN Raise("KeyError", 0)
        ELSE Made(DictGet(json_obj, KeyAp, PyList(<<>>)).v)

\* Decoder._get_ac
get_ac(json_list) ==
    LET Made(aris) ==
            IF \E i \in 1..Len(aris) : aris[i].exc # "none" THEN Raise("KeyError", 0)
            ELSE Ok([cls |-> "AC", items |-> [i \in 1..Len(aris) |-> aris[i].val]], 0)
    IN  Made([i \in 1..Len(json_list.v) |-> get_ari(json_list.v[i])])

\* the Expr of an initializer
get_expr(json_val) ==
    IF KeyType \notin DOMAIN json_val.v \/ KeyPostfix \notin DOMAIN json_val.v
    THEN Raise("KeyError", 0)
    ELSE Bind(get_ac(json_val.v[KeyPostfix]), LAMBDA postfix :
         Ok([cls |-> "Expr", type |-> json_val.v[KeyType], postfix |-> postfix.val], 0))

\* the value set for one key: a TypeNameList for parmspec and columns, an
\* Expr for initializer, an AC for action and definition, a list of
\* OperParm for in-type and the JSON value for all others
MemberValue(key, json_val) ==
    IF key \in {KeyParmspec, KeyColumns} THEN TypeNameList(json_val)
    ELSE IF key = KeyInitializer THEN get_expr(json_val)
    ELSE IF key \in {KeyAction, KeyDefinition} THEN get_ac(json_val)
    ELSE IF key = KeyInType
    THEN Ok([cls |-> "OperParms",
             items |-> [i \in 1..Len(json_val.v) |-> [type |-> json_val.v[i]]]], 0)
    ELSE Ok(json_val, 0)

\* Decoder.from_json_obj: the attributes set on the new object, by member
\* name
from_json_obj(cls, json_obj) ==
    LET Made(keys, vals) ==
            IF \E key \in keys : vals[key].exc # "none" THEN Raise("KeyError", 0)
            ELSE Ok([cls |-> cls,
                     attrs |-> [m \in {attr_to_member(key) : key \in keys} |->
                                   vals[CHOOSE key \in keys : attr_to_member(key) = m].val],
                     norm_name |-> None,
                     enum |-> None], 0)
        Read(keys) == Made(keys, [key \in keys |-> MemberValue(key, json_obj.v[key])])
    IN  Read({ATTRMAP[cls][i] : i \in 1..Len(ATTRMAP[cls])} \cap DOMAIN json_obj.v)

\* an attribute of an ORM object, None when it was never set
Attr(obj, member) == IF member \in DOMAIN obj.attrs THEN obj.attrs[member] ELSE None

\* the derived attributes with the enum the document gives, when it gives one
Derived_given_enum(obj, name, enum) ==
    [obj EXCEPT !.norm_name = IF name # None THEN PyStr(normalize_ident(name.v)) ELSE None,
                !.enum = IF Attr(obj, KeyEnum) # None THEN Attr(obj, KeyEnum)
                         ELSE PyInt(enum)]

\* the derived attributes of an object of a section: its norm_name, when it
\* has a name, and its position as enum
Derived(obj, name, enum) ==
    [obj EXCEPT !.norm_name = IF name # None THEN PyStr(normalize_ident(name.v)) ELSE None,
                !.enum = PyInt(enum)]

RECURSIVE get_section(_, _, _)
\* Decoder._get_section: the objects of one section from position enum on
get_section(orm_cls, sec, enum) ==
    IF enum >= Len(sec.v) THEN Ok(<<>>, 0)
    ELSE Bind(from_json_obj(orm_cls, sec.v[enum + 1]), LAMBDA made :
         Bind(get_section(orm_cls, sec, enum + 1), LAMBDA rest :
         Ok(<<Derived(made.val, Attr(made.val, KeyName), enum)>> \o rest.val, 0)))

RECURSIVE GetSections(_, _)
\* the sections of all classes from the idx-th class on, in one list
GetSections(json_adm, idx) ==
    IF idx > Len(OrmClasses) THEN Ok(<<>>, 0)
    ELSE Bind(get_section(OrmClasses[idx],
                          DictGet(json_adm, casefold(SECNAMES[OrmClasses[idx]]), PyList(<<>>)),
                          0), LAMBDA sec :
         Bind(GetSections(json_adm, idx + 1), LAMBDA rest :
         Ok(sec.val \o rest.val, 0)))

\* int(value) of an mdat value: an int, or decimal text with an optional sign
ToInt(value) ==
    LET s == IF IsSign(value.v, 1) THEN 2 ELSE 1
        digits == SubSeq(value.v, s, Len(value.v))
    IN  CASE value.k = "int" -> Ok(value, 0)
          [] value.k = "str" ->
                IF digits = <<>> \/ \E i \in 1..Len(digits) : ~IsDigit(digits[i])
                THEN Raise("ValueError", 0)
                ELSE Ok(PyInt(IF value.v[1] = Ord("-") THEN 0 - DecValue(digits)
                              ELSE DecValue(digits)), 0)
          [] OTHER -> Raise("TypeError", 0)

\* the values of the mdat objects whose name is exactly the given one
MdatValues(children, name) ==
    LET Values(mdat) == [i \in 1..Len(mdat) |-> Attr(mdat[i], KeyValue)]
    IN  Values(SelectSeq(children,
                         LAMBDA c : c.cls = "Mdat" /\ Attr(c, KeyName) = PyStr(name)))

\* the AdmFile of Decoder.decode, with the values of its mdat objects name,
\* namespace and enum; a name or namespace that is no text cannot be
\* normalized
AdmFile(oid, path, uses, children, names, spaces, enums) ==
    IF names # <<>> /\ names[1].k # "str" THEN Raise("AttributeError", 0)
    ELSE IF spaces # <<>> /\ spaces[1].k # "str" THEN Raise("AttributeError", 0)
    ELSE Bind(IF enums # <<>> THEN ToInt(enums[1]) ELSE Ok(None, 0), LAMBDA enum :
         Ok([oid |-> oid,
             abs_file_path |-> path,
             uses |-> [i \in 1..Len(uses) |->
                          [namespace |-> uses[i].v,
                           norm_namespace |-> normalize_ident(uses[i].v)]],
             children |-> children,
             norm_name |-> IF names # <<>> THEN PyStr(normalize_ident(names[1].v)) ELSE None,
             norm_namespace |-> IF spaces # <<>> THEN PyStr(normalize_ident(spaces[1].v))
                                ELSE None,
             adm_ns |-> IF spaces # <<>> THEN spaces[1] ELSE None,
             enum |-> enum.val], 0))

\* Decoder.decode: the AdmFile read from a document; path is the name of the
\* buffer (None for one without a name), oid tells the object from all others
adm_decode(doc, path, oid) ==
    LET File(json_adm) ==
            Bind(GetSections(json_adm, 1), LAMBDA secs :
            AdmFile(oid, path, DictGet(json_adm, KeyUses, PyList(<<>>)).v, secs.val,
                    MdatValues(secs.val, KeyName), MdatValues(secs.val, KeyNamespace),
                    MdatValues(secs.val, KeyEnum)))
    IN  File(JsonLoad(doc))

-----------------------------------------------------------------------------
(* ace.adm_set: the ADM catalog.  The session holds the AdmFile rows in the *)
(* order they were added; a query sees what the session has added or deleted*)
(* so far, commit keeps it and rollback returns to the last commit.         *)

\* Query.one_or_none(): the row, None, or MultipleResultsFound
one_or_none(found) ==
    IF Len(found) > 1 THEN Raise("MultipleResultsFound", 0)
    ELSE IF found = <<>> THEN Ok(None, 0)
    ELSE Ok(found[1], 0)

\* AdmSet.contains_namespace: the count of rows with that norm_namespace
contains_namespace(rows, namespace) ==
    Len(SelectSeq(rows, LAMBDA adm : adm.norm_namespace = PyStr(namespace)))

\* AdmSet.__contains__: the count of rows with that norm_name
contains(rows, name) == Len(SelectSeq(rows, LAMBDA adm : adm.norm_name = PyStr(name)))

\* AdmSet.get_by_norm_name
get_by_norm_name(rows, name) ==
    LET adm == one_or_none(SelectSeq(rows, LAMBDA a : a.norm_name = PyStr(casefold(name))))
    IN  IF adm.exc # "none" THEN adm
        ELSE IF adm.val = None THEN Raise("KeyError", 0)
        ELSE adm

\* AdmSet.get_by_enum
get_by_enum(rows, enum) ==
    LET adm == one_or_none(SelectSeq(rows, LAMBDA a : a.enum = PyInt(enum)))
    IN  IF adm.exc # "none" THEN adm
        ELSE IF adm.val = None THEN Raise("KeyError", 0)
        ELSE adm

\* AdmSet.get_child: norm_name and enum are None when not filtered on; a
\* norm_name that is no text has no casefold()
get_child(adm, cls, norm_name, enum) ==
    IF norm_name.k \notin {"none", "str"} THEN Raise("AttributeError", 0)
    ELSE one_or_none(SelectSeq(adm.children, LAMBDA c :
            /\ c.cls = cls
            /\ (norm_name # None => c.norm_name = PyStr(casefold(norm_name.v)))
            /\ (enum # None => c.enum = enum)))

\* the rows without those of a norm_name
WithoutName(rows, norm_name) == SelectSeq(rows, LAMBDA adm : adm.norm_name # norm_name)

RECURSIVE Release(_, _, _)
\* the loop over pending_adms after adm_new was added: its adm_ns is taken
\* out of each list of uses that holds it, once, and an ADM whose list gets
\* empty is added.  Gives [pending, added].
Release(pending, adm_ns, idx) ==
    IF idx > Len(pending) THEN [pending |-> pending, added |-> <<>>]
    ELSE LET uses == pending[idx].uses
             at == IF adm_ns.k = "str" /\ \E i \in 1..Len(uses) : uses[i] = adm_ns.v
                   THEN CHOOSE i \in 1..Len(uses) :
                            uses[i] = adm_ns.v /\ \A j \in 1..(i - 1) : uses[j] # adm_ns.v
                   ELSE 0
             left == IF at = 0 THEN uses
                     ELSE SubSeq(uses, 1, at - 1) \o SubSeq(uses, at + 1, Len(uses))
             rest == Release([pending EXCEPT ![idx].uses = left], adm_ns, idx + 1)
         IN  IF at # 0 /\ left = <<>>
             THEN [rest EXCEPT !.added = <<pending[idx].adm>> \o rest.added]
             ELSE rest

\* _post_load with the namespaces of the pending ADMs counted as present
post_load_pending_present(rows, pending_adms, adm_new, del_dupe) ==
    LET uses == [i \in 1..Len(adm_new.uses) |-> adm_new.uses[i].norm_namespace]
        pending == \E i \in 1..Len(uses) :
                        /\ contains_namespace(rows, uses[i]) = 0
                        /\ \A p \in 1..Len(pending_adms) :
                                pending_adms[p].adm.norm_namespace # PyStr(uses[i])
        kept == IF del_dupe THEN WithoutName(rows, adm_new.norm_name) ELSE rows
        rel == Release(pending_adms, adm_new.adm_ns, 1)
    IN  IF adm_new.norm_name = None \/ adm_new.norm_name.v = <<>>
        THEN [exc |-> "RuntimeError", rows |-> rows, pending_adms |-> pending_adms]
        ELSE IF pending
        THEN [exc |-> "none", rows |-> rows,
              pending_adms |-> Append(pending_adms, [adm |-> adm_new, uses |-> uses])]
        ELSE [exc |-> "none", rows |-> Append(kept, adm_new) \o rel.added,
              pending_adms |-> rel.pending]

\* AdmSet._post_load on the session [rows, pending_adms]: gives
\* [exc, rows, pending_adms]
post_load(rows, pending_adms, adm_new, del_dupe) ==
    LET uses == [i \in 1..Len(adm_new.uses) |-> adm_new.uses[i].norm_namespace]
        pending == \E i \in 1..Len(uses) : contains_namespace(rows, uses[i]) = 0
        kept == IF del_dupe THEN WithoutName(rows, adm_new.norm_name) ELSE rows
        rel == Release(pending_adms, adm_new.adm_ns, 1)
    IN  IF adm_new.norm_name = None \/ adm_new.norm_name.v = <<>>
        THEN [exc |-> "RuntimeError", rows |-> rows, pending_adms |-> pending_adms]
        ELSE IF pending
        THEN [exc |-> "none", rows |-> rows,
              pending_adms |-> Append(pending_adms, [adm |-> adm_new, uses |-> uses])]
        ELSE [exc |-> "none", rows |-> Append(kept, adm_new) \o rel.added,
              pending_adms |-> rel.pending]

-----------------------------------------------------------------------------
(* ace.nickname: the nickname converter.  The conversion changes the ARI in *)
(* place, so a result is [exc, val] with val the ARI as the call leaves it, *)
(* also when it raises.                                                     *)

\* ORM_TYPE: the ORM class of each reference type
ORM_TYPE ==
    [ MDAT |-> "Mdat", CONST |-> "Const", CTRL |-> "Ctrl", EDD |-> "Edd", MAC |-> "Mac",
      OPER |-> "Oper", RPTT |-> "Rptt", TBLT |-> "Tblt", VAR |-> "Var" ]

\* class AdmObjType(enum.IntEnum)
AdmObjType ==
    [ CONST |-> 0, CTRL |-> 1, EDD |-> 2, MAC |-> 3, OPER |-> 4, RPTT |-> 5, SBR |-> 6,
      TBLT |-> 7, TBR |-> 8, VAR |-> 9, MDAT |-> 10 ]

Done(val) == [exc |-> "none", val |-> val]
Stop(exc, val) == [exc |-> exc, val |-> val]

\* the classes with a parmspec attribute
HasParmspec == {"Edd", "Ctrl", "Mac", "Rptt"}

RECURSIVE RewrapParams(_, _, _)
\* for ix, spec in enumerate(obj.parmspec.items): a parameter whose spec has
\* the type TNVC is replaced by a TNVC of its items
RewrapParams(ari, specs, ix) ==
    IF ix >= Len(specs) THEN Done(ari)
    ELSE IF specs[ix + 1].type # PyStr(T(<<"T", "N", "V", "C">>))
    THEN RewrapParams(ari, specs, ix + 1)
    ELSE IF ari.params = None THEN Stop("TypeError", ari)
    ELSE IF ix >= Len(ari.params.v) THEN Stop("IndexError", ari)
    ELSE IF ari.params.v[ix + 1].cls \notin {"AC", "EXPR", "TNVC"} THEN Stop("AttributeError", ari)
    ELSE RewrapParams([ari EXCEPT !.params.v[ix + 1] = TNVC(ari.params.v[ix + 1].items)],
                      specs, ix + 1)

\* a lookup on the way of a conversion: its exception ends the conversion
\* with the ARI as it is, otherwise it goes on with what was found
Try(r, ari, K(_)) == IF r.exc # "none" THEN Stop(r.exc, ari) ELSE K(r.val)

\* the end of the mode TO_NN with a namespace that leaves out the kind of
\* the object
to_nn_found_no_kind(must, ari, obj_type, adm, obj) ==
    IF adm.enum = None \/ obj = None \/ obj.enum = None
    THEN IF must THEN Stop("RuntimeError", ari) ELSE Done(ari)
    ELSE Done([ari EXCEPT !.ident.namespace = PyInt(adm.enum.v * 20),
                          !.ident.name = PyBytes(CborDumps(obj.enum))])

\* the end of the mode TO_NN with the name rewritten and the namespace left
\* as text
to_nn_found_text_space(must, ari, obj_type, adm, obj) ==
    IF adm.enum = None \/ obj = None \/ obj.enum = None
    THEN IF must THEN Stop("RuntimeError", ari) ELSE Done(ari)
    ELSE Done([ari EXCEPT !.ident.name = PyBytes(CborDumps(obj.enum))])

\* the end of the mode TO_NN, with the ADM and the object that were found
to_nn_found(must, ari, obj_type, adm, obj) ==
    LET Named(named, parmspec) ==
            IF obj.cls \in HasParmspec /\ parmspec # None
            THEN RewrapParams(named, parmspec.items, 0)
            ELSE Done(named)
    IN  IF adm.enum = None \/ obj = None \/ obj.enum = None
        THEN IF must THEN Stop("RuntimeError", ari) ELSE Done(ari)
        ELSE Named([ari EXCEPT
                      !.ident.namespace = PyInt((adm.enum.v * 20) + AdmObjType[obj_type]),
                      !.ident.name = PyBytes(CborDumps(obj.enum))],
                   Attr(obj, KeyParmspec))

\* Converter._convert_ari in the mode TO_NN, for a text namespace
to_nn_ari(rows, must, ari) ==
    LET Parts(parts, obj_type) ==
            IF Len(parts) < 2 THEN Stop("IndexError", ari)
            ELSE Try(get_by_norm_name(rows, parts[2]), ari, LAMBDA adm :
                 IF obj_type \notin DOMAIN AdmObjType \/ obj_type \notin DOMAIN ORM_TYPE
                 THEN Stop("KeyError", ari)
                 ELSE Try(get_child(adm, ORM_TYPE[obj_type], ari.ident.name, None), ari,
                          LAMBDA obj : to_nn_found(must, ari, obj_type, adm, obj)))
    IN  Parts(Split(ari.ident.namespace.v, Ord(":")), MemberOf(ari.ident.type_enum))

\* cbor2.loads(buf); octets after the first item are not modelled
CborLoads(buf) ==
    LET End(r) == IF r.exc = "none" /\ r.pos # Len(buf) + 1 THEN Raise("Unmodelled", 0) ELSE r
    IN  End(CborDecode(buf, 1))

\* Converter._convert_ari in the mode FROM_NN, for an integer namespace; an
\* object name that decodes to a bool is not modelled
from_nn_ari(rows, ari) ==
    LET ns == ari.ident.namespace.v
        obj_type == MemberOf(ari.ident.type_enum)
        Spaced(adm) == [ari EXCEPT !.ident.namespace =
                           PyStr(T(<<"I", "A", "N", "A", ":">>) \o adm.norm_name.v)]
    IN  IF (ns % 20) \notin {AdmObjType[f] : f \in DOMAIN AdmObjType} THEN Stop("ValueError", ari)
        ELSE IF ari.ident.name.k # "bytes" THEN Stop("TypeError", ari)
        ELSE Try(CborLoads(ari.ident.name.v), ari, LAMBDA obj_enum :
             IF obj_enum.k = "bool" THEN Stop("Unmodelled", ari)
             ELSE IF obj_enum.k # "int" THEN Stop("ValueError", ari)
             ELSE Try(get_by_enum(rows, ns \div 20), ari, LAMBDA adm :
                  IF obj_type \notin DOMAIN ORM_TYPE THEN Stop("KeyError", ari)
                  ELSE Try(get_child(adm, ORM_TYPE[obj_type], None, obj_enum), ari,
                           LAMBDA obj :
                       IF obj = None THEN Stop("AttributeError", Spaced(adm))
                       ELSE Done([Spaced(adm) EXCEPT !.ident.name = obj.norm_name]))))

\* Converter._convert_ari
convert_ari(mode, rows, must, ari) ==
    IF mode = "TO_NN" /\ ari.ident.namespace.k = "str" THEN to_nn_ari(rows, must, ari)
    ELSE IF mode = "FROM_NN" /\ ari.ident.namespace.k = "int" THEN from_nn_ari(rows, ari)
    ELSE Done(ari)

RECURSIVE convert(_, _, _, _), ConvertItems(_, _, _, _, _)

\* for item in items: self(item), from the idx-th item on
ConvertItems(mode, rows, must, items, idx) ==
    LET Put(item) ==
            IF item.exc # "none" THEN Stop(item.exc, [items EXCEPT ![idx] = item.val])
            ELSE ConvertItems(mode, rows, must, [items EXCEPT ![idx] = item.val], idx + 1)
    IN  IF idx > Len(items) THEN Done(items)
        ELSE Put(convert(mode, rows, must, items[idx]))

\* the object with its items as their conversion left them
WithItems(items, Put(_)) == [exc |-> items.exc, val |-> Put(items.val)]

\* Converter.__call__
convert(mode, rows, must, obj) ==
    IF obj.cls = "ReferenceARI"
    THEN Bind(convert_ari(mode, rows, must, obj), LAMBDA ari :
         IF ari.val.params = None \/ ari.val.params.v = <<>> THEN ari
         ELSE WithItems(ConvertItems(mode, rows, must, ari.val.params.v, 1),
                        LAMBDA items : [ari.val EXCEPT !.params.v = items]))
    ELSE IF obj.cls \in {"AC", "EXPR", "TNVC"}
    THEN WithItems(ConvertItems(mode, rows, must, obj.items, 1),
                   LAMBDA items : [obj EXCEPT !.items = items])
    ELSE Done(obj)

\* the members of each class whose column is not nullable
NotNullable ==
    [ Mdat |-> {KeyName, KeyValue}, Const |-> {KeyName}, Ctrl |-> {KeyName},
      Edd |-> {KeyName, KeyType}, Mac |-> {KeyName, KeyAction}, Oper |-> {KeyName},
      Rptt |-> {KeyName, KeyDefinition}, Tblt |-> {KeyName, KeyColumns},
      Var |-> {KeyName, KeyType} ]

\* a flush of the session fails with IntegrityError when a row holds an
\* object without a value for a column that is not nullable
Flushable(rows) ==
    \A i \in 1..Len(rows) : \A j \in 1..Len(rows[i].children) :
        \A member \in NotNullable[rows[i].children[j].cls] :
            Attr(rows[i].children[j], member) # None

\* The state of an AdmSet is [rows, pending_adms, next_oid]: the committed
\* rows, the pending ADMs with the uses each still waits for, and the number
\* that tells the next decoded AdmFile object from all others.  A call gives
\* [exc, ret, rows, pending_adms, next_oid]: rows as the session holds them
\* when the call ends or raises, before commit or rollback.
Step(exc, ret, rows, pending_adms, next_oid) ==
    [exc |-> exc, ret |-> ret, rows |-> rows, pending_adms |-> pending_adms,
     next_oid |-> next_oid]

\* decode a document and _post_load it, the common part of load_from_data
\* and _read_file
DecodeAndPostLoad(set, doc, path, del_dupe) ==
    LET PostLoaded(pl, adm_new) ==
            Step(pl.exc, adm_new, pl.rows, pl.pending_adms, set.next_oid + 1)
        Decoded(adm_new) ==
            IF adm_new.exc # "none"
            THEN Step(adm_new.exc, None, set.rows, set.pending_adms, set.next_oid)
            ELSE PostLoaded(post_load(set.rows, set.pending_adms, adm_new.val, del_dupe),
                            adm_new.val)
    IN  Decoded(adm_decode(doc, path, set.next_oid))

\* the end of a call that keeps what the session holds also when it raises
Finish_no_rollback(set, step) ==
    LET exc == IF step.exc = "none" /\ ~Flushable(step.rows) THEN "IntegrityError"
               ELSE step.exc
    IN  [set |-> [rows |-> step.rows,
                  pending_adms |-> step.pending_adms,
                  next_oid |-> step.next_oid],
         exc |-> exc,
         ret |-> IF exc = "none" THEN step.ret ELSE None]

\* commit, or rollback and raise: the AdmSet after the call and its outcome
Finish(set, step) ==
    LET exc == IF step.exc = "none" /\ ~Flushable(step.rows) THEN "IntegrityError"
               ELSE step.exc
    IN  [set |-> [rows |-> IF exc = "none" THEN step.rows ELSE set.rows,
                  pending_adms |-> step.pending_adms,
                  next_oid |-> step.next_oid],
         exc |-> exc,
         ret |-> IF exc = "none" THEN step.ret ELSE None]

\* AdmSet.load_from_data
load_from_data(set, doc, del_dupe) == Finish(set, DecodeAndPostLoad(set, doc, None, del_dupe))

\* AdmSet._read_file on the session of set: an ADM already loaded from the
\* path is returned as it is (the files do not change); files maps each path
\* that can be opened to its document
read_file(set, files, file_path, del_dupe) ==
    LET adm_existing == one_or_none(SelectSeq(set.rows,
                            LAMBDA adm : adm.abs_file_path = PyStr(file_path)))
    IN  IF ~Flushable(set.rows)
        THEN Step("IntegrityError", None, set.rows, set.pending_adms, set.next_oid)
        ELSE IF adm_existing.exc # "none"
        THEN Step(adm_existing.exc, None, set.rows, set.pending_adms, set.next_oid)
        ELSE IF adm_existing.val # None
        THEN Step("none", adm_existing.val, set.rows, set.pending_adms, set.next_oid)
        ELSE IF file_path \notin DOMAIN files
        THEN Step("FileNotFoundError", None, set.rows, set.pending_adms, set.next_oid)
        ELSE DecodeAndPostLoad(set, files[file_path], PyStr(file_path), del_dupe)

\* AdmSet.load_from_file
load_from_file(set, files, file_path, del_dupe) ==
    Finish(set, read_file(set, files, file_path, del_dupe))

RECURSIVE ReadItems(_, _, _, _)
\* the loop of load_from_dir over the usable items, from the idx-th on; ret
\* counts the files read
ReadItems(set, files, items, idx) ==
    IF idx > Len(items) THEN Step("none", PyInt(0), set.rows, set.pending_adms, set.next_oid)
    ELSE Bind(read_file(set, files, items[idx], TRUE), LAMBDA one :
         Bind(ReadItems([rows |-> one.rows, pending_adms |-> one.pending_adms,
                         next_oid |-> one.next_oid], files, items, idx + 1), LAMBDA rest :
         [rest EXCEPT !.ret = PyInt(rest.ret.v + 1)]))

\* AdmSet._is_usable, for the name of a file
is_usable(name) ==
    /\ name # T(<<"i", "n", "d", "e", "x", ".", "j", "s", "o", "n">>)
    /\ Len(name) >= 5
    /\ SubSeq(name, Len(name) - 4, Len(name)) = T(<<".", "j", "s", "o", "n">>)

\* AdmSet.load_from_dir: items are the paths of the usable files of the
\* directory in the order os.scandir gives them; a path that is no directory
\* gives 0
load_from_dir(set, files, is_dir, items) ==
    IF ~is_dir THEN [set |-> set, exc |-> "none", ret |-> PyInt(0)]
    ELSE Finish(set, ReadItems(set, files, items, 1))

-----------------------------------------------------------------------------
(* The ADM documents and the files of the runs.                             *)

MdatItem(name, value) == JObj(<< <<KeyName, PyStr(name)>>, <<KeyValue, value>> >>)

TypeUint == T(<<"U", "I", "N", "T">>)

\* a variable with its name and type
NamedVar(name) == JObj(<< <<KeyName, PyStr(name)>>, <<KeyType, PyStr(TypeUint)>> >>)

\* a report template with its name and an empty definition
NamedRptt(name) == JObj(<< <<KeyName, PyStr(name)>>, <<KeyDefinition, PyList(<<>>)>> >>)

\* an ADM document with the mdat objects name, namespace and enum, the uses
\* and further sections
AdmDoc(name, namespace, enum, uses, sections) ==
    JObj(<< <<T(<<"M", "d", "a", "t">>),
              PyList(<< MdatItem(KeyName, PyStr(name)),
                        MdatItem(KeyNamespace, PyStr(namespace)),
                        MdatItem(KeyEnum, enum) >>)>>,
            <<KeyUses, PyList([i \in 1..Len(uses) |-> PyStr(uses[i])])>> >> \o sections)

NsA == T(<<"n", "a">>)
NsB == T(<<"n", "b">>)
NsX == T(<<"n", "x">>)
NsAgent == T(<<"A", "m", "p", "/", "A", "g", "e", "n", "t">>)

DocA == AdmDoc(T(<<"a">>), NsA, PyStr(T(<<"1">>)), <<>>, <<>>)
DocB == AdmDoc(T(<<"B">>), NsB, PyInt(2), <<>>,
               << <<T(<<"V", "A", "R">>), PyList(<<NamedVar(T(<<"v", "1">>))>>)>> >>)
DocX == AdmDoc(T(<<"x">>), NsX, PyInt(3), <<NsA, NsB>>, <<>>)
DocY == AdmDoc(T(<<"y">>), T(<<"n", "y">>), PyInt(4), <<NsX>>, <<>>)
DocAgent == AdmDoc(T(<<"a">>), NsAgent, PyInt(5), <<>>, <<>>)
DocU == AdmDoc(T(<<"u">>), T(<<"n", "u">>), PyInt(6), <<NsAgent>>, <<>>)
\* a second document of the name a (written A), which uses nb
DocA2 == AdmDoc(T(<<"A">>), T(<<"n", "2">>), PyInt(8), <<NsB>>, <<>>)
\* a document without the mdat object name
DocNoName == JObj(<< <<KeyUses, PyList(<<>>)>> >>)
\* a document with an object that has no name
DocNameless == AdmDoc(T(<<"n">>), T(<<"n", "n">>), PyInt(7), <<>>,
                      << <<T(<<"C", "t", "r", "l">>), PyList(<<JObj(<<>>)>>)>> >>)

AdmDocs == {DocA, DocB, DocX, DocY, DocAgent, DocU, DocA2, DocNoName, DocNameless}

PathA == T(<<"d", "/", "a", ".", "j", "s", "o", "n">>)
PathX == T(<<"d", "/", "x", ".", "j", "s", "o", "n">>)
PathIndex == T(<<"d", "/", "i", "n", "d", "e", "x", ".", "j", "s", "o", "n">>)
PathMissing == T(<<"m", ".", "j", "s", "o", "n">>)
PathB == T(<<"f", "/", "b", ".", "j", "s", "o", "n">>)
PathNoName == T(<<"f", "/", "n", ".", "j", "s", "o", "n">>)

\* the files that can be opened, by path
Files ==
    (PathA :> DocA) @@ (PathX :> DocX) @@ (PathIndex :> DocNoName)
    @@ (PathB :> DocB) @@ (PathNoName :> DocNoName)

\* the directories: d holds three files, f holds a file that loads and one
\* without the mdat object name, e is no directory
IsDir(dir) == dir \in {"d", "f"}

\* the entries of a directory in one of the orders os.scandir may give them
Scans(dir) ==
    IF dir = "d" THEN { <<PathA, PathX, PathIndex>>, <<PathIndex, PathX, PathA>> }
    ELSE IF dir = "f" THEN { <<PathB, PathNoName>>, <<PathNoName, PathB>> }
    ELSE { <<>> }

\* the file name of a path
BaseName(path) == Split(path, Ord("/"))[Len(Split(path, Ord("/")))]

\* the most AdmFile objects one run decodes
MaxLoads == 3

-----------------------------------------------------------------------------
(* The catalog: one AdmSet and the calls made on it.                        *)

Idle == [form |-> "idle", val |-> None]

Init ==
    /\ adms = [rows |-> <<>>, pending_adms |-> <<>>, next_oid |-> 1]
    /\ call = [op |-> "AdmSet", exc |-> "none", ret |-> None]
    /\ src = Idle
    /\ cur = Idle
    /\ trail = <<>>

Called(op, r) ==
    /\ adms' = r.set
    /\ call' = [op |-> op, exc |-> r.exc, ret |-> r.ret]
    /\ UNCHANGED <<src, cur, trail>>

LoadFromData(doc, del_dupe) ==
    /\ adms.next_oid <= MaxLoads
    /\ Called("load_from_data", load_from_data(adms, doc, del_dupe))

LoadFromFile(file_path, del_dupe) ==
    /\ adms.next_oid <= MaxLoads
    /\ Called("load_from_file", load_from_file(adms, Files, file_path, del_dupe))

LoadFromDir(dir, scan) ==
    /\ adms.next_oid <= MaxLoads
    /\ Called("load_from_dir",
              load_from_dir(adms, Files, IsDir(dir),
                            SelectSeq(scan, LAMBDA path : is_usable(BaseName(path)))))

Next ==
    \/ \E doc \in AdmDocs, del_dupe \in BOOLEAN : LoadFromData(doc, del_dupe)
    \/ \E file_path \in {PathA, PathX, PathMissing}, del_dupe \in BOOLEAN :
            LoadFromFile(file_path, del_dupe)
    \/ \E dir \in {"d", "e", "f"} : \E scan \in Scans(dir) : LoadFromDir(dir, scan)

Spec == Init /\ [][Next]_vars

\* the calls of a program that leaves del_dupe at its default, True
NextDupe ==
    \/ \E doc \in AdmDocs : LoadFromData(doc, TRUE)
    \/ \E file_path \in {PathA, PathX, PathMissing} : LoadFromFile(file_path, TRUE)
    \/ \E dir \in {"d", "e", "f"} : \E scan \in Scans(dir) : LoadFromDir(dir, scan)

SpecDupe == Init /\ [][NextDupe]_vars

-----------------------------------------------------------------------------
(* The catalog of the conversions: the ADM amp_agent with the enum 20, a    *)
(* report template, a control whose parmspec holds a TNVC and a variable,   *)
(* and the ADM plain, which has no enum.                                    *)

NameAmpAgent == T(<<"a", "m", "p", "_", "a", "g", "e", "n", "t">>)
NameFullReport == T(<<"f", "u", "l", "l", "_", "r", "e", "p", "o", "r", "t">>)
NameGenRpts == T(<<"g", "e", "n", "_", "r", "p", "t", "s">>)
NamePlain == T(<<"p", "l", "a", "i", "n">>)
NameNumRules == T(<<"n", "u", "m", "_", "r", "u", "l", "e", "s">>)

TypeName(type, name) == JObj(<< <<KeyType, PyStr(type)>>, <<KeyName, PyStr(name)>> >>)

DocAmpAgent ==
    AdmDoc(NameAmpAgent, NsAgent, PyInt(20), <<>>,
           << <<T(<<"R", "p", "t", "t">>), PyList(<<NamedRptt(NameFullReport)>>)>>,
              <<T(<<"C", "t", "r", "l">>),
                PyList(<<JObj(<< <<KeyName, PyStr(NameGenRpts)>>,
                                 <<KeyParmspec,
                                   PyList(<<TypeName(T(<<"A", "C">>), T(<<"i", "d", "s">>)),
                                            TypeName(T(<<"T", "N", "V", "C">>), T(<<"r", "x", "m", "g", "r", "s">>))>>)>> >>)>>)>>,
              <<T(<<"V", "a", "r">>), PyList(<<NamedVar(NameNumRules)>>)>> >>)

\* a document without the mdat object enum
DocPlain ==
    JObj(<< <<T(<<"M", "d", "a", "t">>), PyList(<<MdatItem(KeyName, PyStr(NamePlain))>>)>>,
            <<T(<<"V", "a", "r">>), PyList(<<NamedVar(NameNumRules)>>)>> >>)

\* the AdmSet after load_from_data of the two documents
Catalog ==
    load_from_data(load_from_data([rows |-> <<>>, pending_adms |-> <<>>, next_oid |-> 1],
                                  DocAmpAgent, TRUE).set,
                   DocPlain, TRUE).set

-----------------------------------------------------------------------------
(* The inputs of the conversions: ARI texts and CBOR byte strings.          *)

\* ari:/IANA:amp_agent/RPTT.full_report
TextFullReport == T(<<"a", "r", "i", ":", "/", "I", "A", "N", "A", ":", "a", "m", "p", "_", "a", "g", "e", "n", "t", "/", "R", "P", "T", "T", ".", "f", "u", "l", "l", "_", "r", "e", "p", "o", "r", "t">>)
\* ari:/IANA:amp_agent/CTRL.gen_rpts
TextGenRpts == T(<<"a", "r", "i", ":", "/", "I", "A", "N", "A", ":", "a", "m", "p", "_", "a", "g", "e", "n", "t", "/", "C", "T", "R", "L", ".", "g", "e", "n", "_", "r", "p", "t", "s">>)
\* ari:/IANA:amp_agent/CTRL.gen_rpts([],[])
TextGenRptsEmpty == T(<<"a", "r", "i", ":", "/", "I", "A", "N", "A", ":", "a", "m", "p", "_", "a", "g", "e", "n", "t", "/", "C", "T", "R", "L", ".", "g", "e", "n", "_", "r", "p", "t", "s", "(", "[", "]", ",", "[", "]", ")">>)
\* ari:/VAR.ab([ari:/IANA:amp_agent/VAR.num_rules])
TextNestedRule == T(<<"a", "r", "i", ":", "/", "V", "A", "R", ".", "a", "b", "(", "[", "a", "r", "i", ":", "/", "I", "A", "N", "A", ":", "a", "m", "p", "_", "a", "g", "e", "n", "t", "/", "V", "A", "R", ".", "n", "u", "m", "_", "r", "u", "l", "e", "s", "]", ")">>)
\* ari:/IANA:nope/VAR.ab
TextNoAdm == T(<<"a", "r", "i", ":", "/", "I", "A", "N", "A", ":", "n", "o", "p", "e", "/", "V", "A", "R", ".", "a", "b">>)
\* ari:/IANA:plain/VAR.num_rules
TextNoEnum == T(<<"a", "r", "i", ":", "/", "I", "A", "N", "A", ":", "p", "l", "a", "i", "n", "/", "V", "A", "R", ".", "n", "u", "m", "_", "r", "u", "l", "e", "s">>)
\* ari:/IANA:amp_agent/VAR.zz
TextNoChild == T(<<"a", "r", "i", ":", "/", "I", "A", "N", "A", ":", "a", "m", "p", "_", "a", "g", "e", "n", "t", "/", "V", "A", "R", ".", "z", "z">>)
\* ari:/405/RPTT.h'00'
TextNickname == T(<<"a", "r", "i", ":", "/", "4", "0", "5", "/", "R", "P", "T", "T", ".", "h", "'", "0", "0", "'">>)
\* ari:/0/VAR.hello
TextZeroSpace == T(<<"a", "r", "i", ":", "/", "0", "/", "V", "A", "R", ".", "h", "e", "l", "l", "o">>)
\* ari:/VAR.ab
TextBare == T(<<"a", "r", "i", ":", "/", "V", "A", "R", ".", "a", "b">>)
\* ari:/VAR.ab()
TextEmptyParams == T(<<"a", "r", "i", ":", "/", "V", "A", "R", ".", "a", "b", "(", ")">>)
\* ari:/VAR.ab(VAST.1,"hi",true)
TextParams == T(<<"a", "r", "i", ":", "/", "V", "A", "R", ".", "a", "b", "(", "V", "A", "S", "T", ".", "1", ",", "DQUOTE", "h", "i", "DQUOTE", ",", "t", "r", "u", "e", ")">>)
\* ari:/VAR.ab([true])
TextAcLiteral == T(<<"a", "r", "i", ":", "/", "V", "A", "R", ".", "a", "b", "(", "[", "t", "r", "u", "e", "]", ")">>)
\* ari:/VAR.ab((INT)[ari:/EDD.cd])
TextExpr == T(<<"a", "r", "i", ":", "/", "V", "A", "R", ".", "a", "b", "(", "(", "I", "N", "T", ")", "[", "a", "r", "i", ":", "/", "E", "D", "D", ".", "c", "d", "]", ")">>)
\* true
TextTrue == T(<<"t", "r", "u", "e">>)
\* 10
TextInt == T(<<"1", "0">>)
\* VAST.10
TextVast == T(<<"V", "A", "S", "T", ".", "1", "0">>)
\* REAL64.1.5
TextReal == T(<<"R", "E", "A", "L", "6", "4", ".", "1", ".", "5">>)
\* "hi"
TextStr == T(<<"DQUOTE", "h", "i", "DQUOTE">>)
\* 'hi'
TextBstr == T(<<"'", "h", "i", "'">>)
\* BYTE.255
TextByteMax == T(<<"B", "Y", "T", "E", ".", "2", "5", "5">>)
\* BYTE.300
TextByteOver == T(<<"B", "Y", "T", "E", ".", "3", "0", "0">>)
\* BOOL.1
TextBoolOne == T(<<"B", "O", "O", "L", ".", "1">>)
\* BOOL.true
TextBoolTrue == T(<<"B", "O", "O", "L", ".", "t", "r", "u", "e">>)
\* INT.1.5
TextIntReal == T(<<"I", "N", "T", ".", "1", ".", "5">>)
\* INT.true
TextIntTrue == T(<<"I", "N", "T", ".", "t", "r", "u", "e">>)
\* REAL32.10
TextRealInt == T(<<"R", "E", "A", "L", "3", "2", ".", "1", "0">>)
\* STR.10
TextStrInt == T(<<"S", "T", "R", ".", "1", "0">>)
\* CTRL.10
TextCtrlInt == T(<<"C", "T", "R", "L", ".", "1", "0">>)
\* TV.0
TextTv == T(<<"T", "V", ".", "0">>)
\* ari:/VAR.ab(
TextUnclosed == T(<<"a", "r", "i", ":", "/", "V", "A", "R", ".", "a", "b", "(">>)

Texts ==
    { TextFullReport, TextGenRpts, TextGenRptsEmpty, TextNestedRule, TextNoAdm,
      TextNoEnum, TextNoChild, TextNickname, TextZeroSpace, TextBare,
      TextEmptyParams, TextParams, TextAcLiteral, TextExpr, TextTrue,
      TextInt, TextVast, TextReal, TextStr, TextBstr,
      TextByteMax, TextByteOver, TextBoolOne, TextBoolTrue, TextIntReal,
      TextIntTrue, TextRealInt, TextStrInt, TextCtrlInt, TextTv,
      TextUnclosed }

\* 871901954100: the reference RPTT with the namespace 405 and the name h'00'
CborNickname == <<135, 25, 1, 149, 65, 0>>
\* 0c426162: the reference VAR.ab
CborBare == <<12, 66, 97, 98>>
\* 4c42616200: VAR.ab with the TNVC flags 0
CborEmptyParams == <<76, 66, 97, 98, 0>>
\* 4c4261620500: VAR.ab with the TNVC flags TYPE|VALUE and the count 0
CborNoItems == <<76, 66, 97, 98, 5, 0>>
\* 4c4261620501258103f5: VAR.ab with an AC that holds the literal true
CborAcLiteral == <<76, 66, 97, 98, 5, 1, 37, 129, 3, 245>>
\* 4c42616205021512016161: VAR.ab with the parameters VAST 1 and STR a
CborParams == <<76, 66, 97, 98, 5, 2, 21, 18, 1, 97, 97>>
\* 3c42616241014102: VAR.ab with the issuer h'01' and the tag h'02'
CborIssuerTag == <<60, 66, 97, 98, 65, 1, 65, 2>>
\* 03f5: the literal BOOL true
CborTrue == <<3, 245>>
\* 030a: the literal BOOL with the value 10
CborBoolTen == <<3, 10>>
\* 1318ff: the literal BYTE 255
CborByte == <<19, 24, 255>>
\* 06: a flag octet whose low nibble is no StructType
CborBadStruct == <<6>>
\* f300: a literal type nibble with no StructType
CborBadLiteral == <<243, 0>>
\* 0c01: a name that is an integer
CborNameInt == <<12, 1>>
\* 4c4261620200: the TNVC flags NAME
CborTnvcName == <<76, 66, 97, 98, 2, 0>>
\* 87: a reference cut after the flag octet
CborTruncated == <<135>>
\* (empty): no octets
CborEmpty == <<>>

\* 871901954105: RPTT with the namespace 405 and the name h'05', the enum of
\* no report template of amp_agent
CborNoChildEnum == <<135, 25, 1, 149, 65, 5>>
\* 8718194100: RPTT with the namespace 25, the enum 1 of no ADM
CborNoAdmEnum == <<135, 24, 25, 65, 0>>
\* 87190195426161: RPTT with the namespace 405 and the name h'6161', the
\* encoding of a text
CborNameText == <<135, 25, 1, 149, 66, 97, 97>>
\* 8719019f4100: RPTT with the namespace 415, the kind 15 of no AdmObjType
CborNoKind == <<135, 25, 1, 159, 65, 0>>

CborInputs ==
    { CborNickname, CborBare, CborEmptyParams, CborNoItems, CborAcLiteral,
      CborParams, CborIssuerTag, CborTrue, CborBoolTen, CborByte,
      CborBadStruct, CborBadLiteral, CborNameInt, CborTnvcName, CborTruncated,
      CborEmpty, CborNoChildEnum, CborNoAdmEnum, CborNameText, CborNoKind }

\* the most calls one run makes on an input
MaxSteps == 3

-----------------------------------------------------------------------------
(* The conversions: an input text or byte string is decoded, converted to   *)
(* or from nicknames against the catalog and encoded.  cur is what the next *)
(* call is made on: a text, a byte string, an ARI, or the exception that    *)
(* ended the run.  trail records each call with its argument, the exception *)
(* it raised and its result; the result of a conversion is the ARI as the   *)
(* call left it, which it changes in place.                                 *)

AsText(val) == [form |-> "text", val |-> val]
AsCbor(val) == [form |-> "cbor", val |-> val]
AsAri(val) == [form |-> "ari", val |-> val]
AsExc(exc) == [form |-> "exc", val |-> exc]

InitAri ==
    /\ adms = Catalog
    /\ call = [op |-> "AdmSet", exc |-> "none", ret |-> None]
    /\ src \in {AsText(text) : text \in Texts} \cup {AsCbor(buf) : buf \in CborInputs}
    /\ cur = src
    /\ trail = <<>>

Traced(op, must, exc, out) ==
    /\ Len(trail) < MaxSteps
    /\ exc # "Unmodelled"
    /\ cur' = IF exc = "none" THEN out ELSE AsExc(exc)
    /\ trail' = Append(trail, [op |-> op, must |-> must, arg |-> cur, exc |-> exc,
                               out |-> out])
    /\ UNCHANGED <<adms, call, src>>

\* a decoder's or encoder's call: its result in the form it has, or the
\* exception
Coded(op, exc, out) == Traced(op, FALSE, exc, IF exc = "none" THEN out ELSE AsExc(exc))

\* ari_text.Decoder.decode
DecodeText ==
    /\ cur.form = "text"
    /\ LET Put(r) == Coded("decode_text", r.exc, AsAri(r.val)) IN Put(text_decode(cur.val))

\* ari_text.Encoder.encode
EncodeText ==
    /\ cur.form = "ari"
    /\ LET Put(r) == Coded("encode_text", r.exc, AsText(r.out)) IN Put(text_encode(cur.val))

\* ari_cbor.Decoder.decode
DecodeCbor ==
    /\ cur.form = "cbor"
    /\ LET Put(r) == Coded("decode_cbor", r.exc, AsAri(r.val)) IN Put(cbor_decode(cur.val))

\* ari_cbor.Encoder.encode
EncodeCbor ==
    /\ cur.form = "ari"
    /\ LET Put(r) == Coded("encode_cbor", r.exc, AsCbor(r.out)) IN Put(cbor_encode(cur.val))

\* Converter(Mode.TO_NN, adms, must_nickname)(ari)
ToNN(must_nickname) ==
    /\ cur.form = "ari"
    /\ LET Put(r) == Traced("TO_NN", must_nickname, r.exc, AsAri(r.val))
       IN  Put(convert("TO_NN", adms.rows, must_nickname, cur.val))

\* Converter(Mode.FROM_NN, adms)(ari)
FromNN ==
    /\ cur.form = "ari"
    /\ LET Put(r) == Traced("FROM_NN", FALSE, r.exc, AsAri(r.val))
       IN  Put(convert("FROM_NN", adms.rows, FALSE, cur.val))

NextAri ==
    \/ DecodeText
    \/ EncodeText
    \/ DecodeCbor
    \/ EncodeCbor
    \/ \E must_nickname \in BOOLEAN : ToNN(must_nickname)
    \/ FromNN

SpecAri == InitAri /\ [][NextAri]_vars

-----------------------------------------------------------------------------
(* Properties of the catalog (Spec) and of the conversions (SpecAri).       *)

\* a == b in Python for two values, of whatever kinds
ValEq(a, b) ==
    IF IsFinite(a) = "yes" /\ IsFinite(b) = "yes" THEN PyEq(a, b)
    ELSE /\ a.k = b.k
         /\ (a.k = "none" \/ ((a.k = "float" => a.v.sp # "nan") /\ a.v = b.v))

RECURSIVE AriEq(_, _)
\* a == b in Python for two ARIs and their parameters and items
AriEq(a, b) ==
    /\ a.cls = b.cls
    /\ CASE a.cls = "LiteralARI" -> a.type_enum = b.type_enum /\ ValEq(a.value, b.value)
         [] a.cls = "ReferenceARI" ->
                /\ a.ident.type_enum = b.ident.type_enum
                /\ ValEq(a.ident.namespace, b.ident.namespace)
                /\ ValEq(a.ident.name, b.ident.name)
                /\ ValEq(a.ident.issuer, b.ident.issuer)
                /\ ValEq(a.ident.tag, b.ident.tag)
                /\ a.params.k = b.params.k
                /\ (a.params.k = "none"
                    \/ (/\ Len(a.params.v) = Len(b.params.v)
                        /\ \A i \in 1..Len(a.params.v) : AriEq(a.params.v[i], b.params.v[i])))
         [] OTHER ->
                /\ (a.cls = "EXPR" => a.type_enum = b.type_enum)
                /\ Len(a.items) = Len(b.items)
                /\ \A i \in 1..Len(a.items) : AriEq(a.items[i], b.items[i])

\* two texts, byte strings, ARIs or exceptions are the same
FormEq(a, b) ==
    /\ a.form = b.form
    /\ (IF a.form = "ari" THEN AriEq(a.val, b.val) ELSE a.val = b.val)

\* the nicknames of the kinds, draft-birrane-dtn-amp-08, Table 1
NickKind ==
    [ CONST |-> 0, CTRL |-> 1, EDD |-> 2, MAC |-> 3, OPER |-> 4, RPTT |-> 5, SBR |-> 6,
      TBLT |-> 7, TBR |-> 8, VAR |-> 9, MDAT |-> 10 ]

\* the parts of the text namespace of a reference, split at the colons
SpaceParts(ari) == Split(ari.ident.namespace.v, Ord(":"))

IsSymbolic(ari) == ari.cls = "ReferenceARI" /\ ari.ident.namespace.k = "str"

\* child is an object of the kind of the reference ari
OfKind(ari, child) ==
    /\ MemberOf(ari.ident.type_enum) \in DOMAIN ORM_TYPE
    /\ child.cls = ORM_TYPE[MemberOf(ari.ident.type_enum)]

\* the namespace and the name of the reference after are those of before
SameIdent(before, after) ==
    /\ ValEq(after.ident.namespace, before.ident.namespace)
    /\ ValEq(after.ident.name, before.ident.name)

\* C1: in the mode TO_NN, a reference with the text namespace prefix:adm_name
\* and the type T, when the catalog holds the ADM adm_name with the enum E and
\* a child of kind T with the name of the reference as norm_name and the enum
\* K, is left with the namespace E*20 + nick(T) and, as name, the CBOR
\* encoding of the unsigned integer K.
C1_ToNnSetsNickname ==
    \A i \in 1..Len(trail) :
        (trail[i].op = "TO_NN" /\ IsSymbolic(trail[i].arg.val) /\ Len(SpaceParts(trail[i].arg.val)) = 2)
        => \A a \in 1..Len(adms.rows) : \A c \in 1..Len(adms.rows[a].children) :
              ( /\ ValEq(adms.rows[a].norm_name, PyStr(SpaceParts(trail[i].arg.val)[2]))
                /\ adms.rows[a].enum # None
                /\ OfKind(trail[i].arg.val, adms.rows[a].children[c])
                /\ ValEq(adms.rows[a].children[c].norm_name, trail[i].arg.val.ident.name)
                /\ adms.rows[a].children[c].enum # None )
              => /\ ValEq(trail[i].out.val.ident.namespace,
                          PyInt((adms.rows[a].enum.v * 20)
                                + NickKind[MemberOf(trail[i].arg.val.ident.type_enum)]))
                 /\ ValEq(trail[i].out.val.ident.name,
                          PyBytes(CborHead(0, adms.rows[a].children[c].enum.v)))

\* the text ari:/IANA:amp_agent/RPTT.full_report was decoded, converted to
\* the namespace 405 and the name h'00', and encoded as 87 19 01 95 41 00
C1_Witness ==
    /\ src = AsText(TextFullReport)
    /\ Len(trail) = 3
    /\ trail[2].op = "TO_NN"
    /\ ValEq(trail[2].out.val.ident.namespace, PyInt(405))
    /\ ValEq(trail[2].out.val.ident.name, PyBytes(<<0>>))
    /\ trail[3].op = "encode_cbor"
    /\ cur = AsCbor(CborNickname)

\* the reference names an ADM of the catalog that has an enum, as IANA: and
\* its norm_name, and by its norm_name a child of its kind of that ADM
NamesStored(ari) ==
    /\ IsSymbolic(ari)
    /\ \E a \in 1..Len(adms.rows) : \E c \in 1..Len(adms.rows[a].children) :
          /\ adms.rows[a].enum # None
          /\ adms.rows[a].norm_name.k = "str"
          /\ ari.ident.namespace.v = T(<<"I", "A", "N", "A", ":">>) \o adms.rows[a].norm_name.v
          /\ OfKind(ari, adms.rows[a].children[c])
          /\ ValEq(adms.rows[a].children[c].norm_name, ari.ident.name)

\* the reference is in nickname form and resolves in the catalog: an integer
\* namespace E*20 + nick(T) for its type T and an ADM with the enum E, and as
\* name the CBOR encoding of the enum of a child of kind T of that ADM
NicknameResolves(ari) ==
    /\ ari.cls = "ReferenceARI"
    /\ ari.ident.namespace.k = "int"
    /\ \E a \in 1..Len(adms.rows) : \E c \in 1..Len(adms.rows[a].children) :
          /\ adms.rows[a].enum # None
          /\ OfKind(ari, adms.rows[a].children[c])
          /\ ari.ident.namespace.v =
                (adms.rows[a].enum.v * 20) + NickKind[MemberOf(ari.ident.type_enum)]
          /\ ValEq(ari.ident.name, PyBytes(CborHead(0, adms.rows[a].children[c].enum.v)))

\* the call after the i-th is op: it raised nothing and left the namespace
\* and the name that the argument of the i-th call had
ComesBack(i, op) ==
    (i < Len(trail) /\ trail[i + 1].op = op)
    => /\ trail[i + 1].exc = "none"
       /\ SameIdent(trail[i].arg.val, trail[i + 1].out.val)

\* C2: the nickname conversion round-trips against the catalog: for a
\* symbolic reference r that names a stored ADM and a stored child of its
\* kind, FROM_NN(TO_NN(r)) has the namespace and the name of r, and for a
\* reference n in nickname form that resolves in the catalog, TO_NN(FROM_NN(n))
\* has the namespace and the name of n.
C2_NicknameRoundTrip ==
    \A i \in 1..Len(trail) :
        /\ (trail[i].op = "TO_NN" /\ NamesStored(trail[i].arg.val))
           => (trail[i].exc = "none" /\ ComesBack(i, "FROM_NN"))
        /\ (trail[i].op = "FROM_NN" /\ NicknameResolves(trail[i].arg.val))
           => (trail[i].exc = "none" /\ ComesBack(i, "TO_NN"))

\* the symbolic reference cannot be given a nickname: the catalog holds no
\* ADM of the name with an enum and a child of the kind with the name of the
\* reference (the lookups fold the case of both names)
NoNickname(ari) ==
    /\ IsSymbolic(ari)
    /\ Len(SpaceParts(ari)) = 2
    /\ ari.ident.name.k = "str"
    /\ ~ \E a \in 1..Len(adms.rows) : \E c \in 1..Len(adms.rows[a].children) :
          /\ ValEq(adms.rows[a].norm_name, PyStr(casefold(SpaceParts(ari)[2])))
          /\ adms.rows[a].enum # None
          /\ OfKind(ari, adms.rows[a].children[c])
          /\ ValEq(adms.rows[a].children[c].norm_name, PyStr(casefold(ari.ident.name.v)))
          /\ adms.rows[a].children[c].enum # None

\* C3: in the mode TO_NN, for a symbolic reference that cannot be given a
\* nickname, the conversion with must_nickname fails with RuntimeError, and
\* the conversion without must_nickname raises nothing and leaves the
\* namespace and the name unchanged.
C3_NoNicknameOutcome ==
    \A i \in 1..Len(trail) :
        (trail[i].op = "TO_NN" /\ NoNickname(trail[i].arg.val))
        => IF trail[i].must THEN trail[i].exc = "RuntimeError"
           ELSE trail[i].exc = "none" /\ SameIdent(trail[i].arg.val, trail[i].out.val)

\* the input texts in canonical form: references with a text namespace, an
\* integer namespace or none, parameters in parentheses when there are any,
\* an AC in brackets, an EXPR with its type, literals of a label type as
\* TYPE.value and the other literals bare
CanonicalTexts ==
    { TextFullReport, TextGenRpts, TextNestedRule, TextNoAdm, TextNoEnum, TextNoChild,
      TextNickname, TextZeroSpace, TextBare, TextEmptyParams, TextParams, TextAcLiteral,
      TextExpr, TextTrue, TextVast, TextReal, TextStr, TextByteMax }

\* C4: for an ARI text T in canonical form, encode_text(decode_text(T)) = T.
C4_TextRoundTrip ==
    (src.form = "text" /\ src.val \in CanonicalTexts /\ Len(trail) >= 1
        /\ trail[1].op = "decode_text")
    => /\ trail[1].exc = "none"
       /\ (Len(trail) >= 2 /\ trail[2].op = "encode_text") => FormEq(trail[2].out, src)

\* the input byte strings in canonical form: the decoder accepts them and
\* reads all of them, every CBOR item is in its shortest form and the TNVC
\* flags are TYPE|VALUE or 0
CanonicalCbor ==
    { CborNickname, CborBare, CborEmptyParams, CborNoItems, CborAcLiteral, CborParams,
      CborIssuerTag, CborTrue, CborBoolTen, CborByte }

\* C5: for a canonical CBOR byte string B, encode_cbor(decode_cbor(B)) = B.
C5_CborRoundTrip ==
    (src.form = "cbor" /\ src.val \in CanonicalCbor /\ Len(trail) >= 1
        /\ trail[1].op = "decode_cbor")
    => /\ trail[1].exc = "none"
       /\ (Len(trail) >= 2 /\ trail[2].op = "encode_cbor") => FormEq(trail[2].out, src)

\* C6: for an ARI a that the text decoder returned,
\* decode_cbor(encode_cbor(a)) = a.
C6_AriCborRoundTrip ==
    (Len(trail) >= 2 /\ trail[1].op = "decode_text" /\ trail[1].exc = "none"
        /\ trail[2].op = "encode_cbor")
    => /\ trail[2].exc = "none"
       /\ (Len(trail) >= 3 /\ trail[3].op = "decode_cbor")
          => (trail[3].exc = "none" /\ FormEq(trail[3].out, trail[1].out))

\* the value of the literal is of the kind and in the range of its type
LiteralMatches(lit) ==
    /\ lit.type_enum \in LITERAL_TYPES
    /\ CASE lit.type_enum = StructType.BOOL -> lit.value.k = "bool"
         [] lit.type_enum \in {StructType.BYTE, StructType.INT, StructType.UINT,
                               StructType.VAST, StructType.UVAST, StructType.TV,
                               StructType.TS} ->
                /\ lit.value.k = "int"
                /\ ~OutsideLimits(lit.value, NUMERIC_LIMITS[MemberOf(lit.type_enum)])
         [] lit.type_enum \in {StructType.REAL32, StructType.REAL64} -> lit.value.k = "float"
         [] lit.type_enum = StructType.STR -> lit.value.k = "str"
         [] lit.type_enum = StructType.BSTR -> lit.value.k = "bytes"
         [] OTHER -> TRUE

RECURSIVE LiteralsMatch(_)
\* every literal in obj, at top level or nested in parameters and items
LiteralsMatch(obj) ==
    IF obj.cls = "LiteralARI" THEN LiteralMatches(obj)
    ELSE IF obj.cls = "ReferenceARI"
    THEN obj.params = None \/ \A i \in 1..Len(obj.params.v) : LiteralsMatch(obj.params.v[i])
    ELSE \A i \in 1..Len(obj.items) : LiteralsMatch(obj.items[i])

\* C7: every LiteralARI that the text decoder or the CBOR decoder returns,
\* at top level or nested in parameters, has a literal type and a value of
\* the kind and in the range of that type.
C7_LiteralsWellTyped ==
    \A i \in 1..Len(trail) :
        (trail[i].op \in {"decode_text", "decode_cbor"} /\ trail[i].exc = "none")
        => LiteralsMatch(trail[i].out.val)

\* the kind of value token that a literal type requires
TokenKind(type_enum) ==
    CASE type_enum = StructType.BOOL -> "BOOL"
      [] type_enum \in {StructType.BYTE, StructType.INT, StructType.UINT, StructType.VAST,
                        StructType.UVAST, StructType.TV, StructType.TS} -> "INT"
      [] type_enum \in {StructType.REAL32, StructType.REAL64} -> "FLOAT"
      [] type_enum = StructType.STR -> "TSTR"
      [] type_enum = StructType.BSTR -> "BSTR"
      [] OTHER -> "none"

\* the outcome that a typed literal with the tokens toks is to have
TypedLiteralOutcome(toks, res) ==
    IF \/ TokenKind(toks[1].value) # toks[2].type
       \/ /\ toks[2].type \in {"INT", "FLOAT"}
          /\ IsFinite(toks[2].value) = "yes"
          /\ OutsideLimits(toks[2].value, NUMERIC_LIMITS[MemberOf(toks[1].value)])
    THEN res.exc = "ParseError"
    ELSE res.exc = "none" /\ FormEq(res.out, AsAri(LiteralARI(toks[1].value, toks[2].value)))

\* C8: the text decoder raises ParseError for a typed literal TYPE.value
\* whose value token is not of the kind that TYPE requires, whose number is
\* outside the range of TYPE or whose TYPE is no literal type, and returns
\* LiteralARI(TYPE, value) otherwise.
C8_TypedLiteralChecked ==
    LET Typed(toks) ==
            (Len(toks) = 2 /\ toks[1].type = "TYPEDOT"
                /\ toks[2].type \in {"BOOL", "INT", "FLOAT", "TSTR", "BSTR"})
            => TypedLiteralOutcome(toks, trail[1])
    IN  (src.form = "text" /\ Len(trail) >= 1 /\ trail[1].op = "decode_text")
        => Typed(Lex(src.val, 1))

\* C9: ari_cbor.Decoder.decode returns an ARI or raises ParseError, whatever
\* the input byte string is.
C9_CborDecodeRaisesParseError ==
    \A i \in 1..Len(trail) :
        trail[i].op = "decode_cbor" => trail[i].exc \in {"none", "ParseError"}

\* every namespace in the uses of the ADM is that of an ADM in the rows
UsesPresent(rows, adm) ==
    \A i \in 1..Len(adm.uses) : contains_namespace(rows, adm.uses[i].norm_namespace) > 0

\* C10: an ADM that was held pending is in the catalog as soon as every
\* namespace in its uses belongs to an ADM in the catalog.
C10_PendingReleased ==
    [][\A i \in 1..Len(adms'.pending_adms) :
          (/\ UsesPresent(adms'.rows, adms'.pending_adms[i].adm)
           /\ ~UsesPresent(adms.rows, adms'.pending_adms[i].adm))
          => \E r \in 1..Len(adms'.rows) :
                adms'.rows[r].oid = adms'.pending_adms[i].adm.oid]_vars

\* C11: when every load uses del_dupe = True, the catalog never holds two
\* AdmFiles of one norm_name.
C11_OneAdmPerName ==
    \A i, j \in 1..Len(adms.rows) :
        adms.rows[i].norm_name = adms.rows[j].norm_name => i = j

\* C12: a load call that raises leaves the catalog with exactly the AdmFiles
\* and children it held before the call.
C12_FailedLoadChangesNothing ==
    [][(/\ call'.op \in {"load_from_data", "load_from_file", "load_from_dir"}
        /\ call'.exc # "none")
       => adms'.rows = adms.rows]_vars

\* load_from_dir on an empty catalog read a file, added its ADM to the
\* session and raised on the next file
C12_Witness ==
    /\ call.op = "load_from_dir"
    /\ call.exc = "RuntimeError"
    /\ adms.next_oid = 3
    /\ adms.rows = <<>>

\* C13: an AdmFile returned by load_from_data or load_from_file is a row of
\* the catalog when the call returns, and the number returned by
\* load_from_dir counts no more ADMs than the catalog holds.
C13_ReturnedAdmIsStored ==
    /\ (call.op \in {"load_from_data", "load_from_file"} /\ call.exc = "none")
        => \E r \in 1..Len(adms.rows) : adms.rows[r].oid = call.ret.oid
    /\ (call.op = "load_from_dir" /\ call.exc = "none")
        => call.ret.v <= Len(adms.rows)

-----------------------------------------------------------------------------
(* The queries: one AdmSet after some load_from_data calls, and the lookups *)
(* made on it.  cur holds the arguments of the last lookup, call its        *)
(* outcome.                                                                 *)

\* a document whose name, namespace and variable are written with a slash
DocSlash ==
    AdmDoc(T(<<"s", "/", "t">>), T(<<"N", "s", "/", "T">>), PyInt(9), <<>>,
           << <<T(<<"V", "a", "r">>), PyList(<<NamedVar(T(<<"v", "/", "w">>))>>)>> >>)

QueryDocs == {DocA, DocAgent, DocB, DocX, DocU, DocAmpAgent, DocPlain, DocSlash}

\* the most load_from_data calls made before the lookups
MaxDocs == 2

RECURSIVE Loaded(_)
\* the AdmSets after at most n load_from_data calls
Loaded(n) ==
    IF n = 0 THEN {[rows |-> <<>>, pending_adms |-> <<>>, next_oid |-> 1]}
    ELSE LET More(sets) ==
                 sets \cup {load_from_data(set, doc, del_dupe).set :
                               set \in sets, doc \in QueryDocs, del_dupe \in BOOLEAN}
         IN  More(Loaded(n - 1))

QueryNames ==
    { T(<<"a">>), T(<<"A">>), T(<<"z", "z">>), T(<<"s", "_", "t">>), T(<<"S", "/", "T">>),
      NameAmpAgent }

QueryEnums == {1, 5, 20, 99}

QuerySpaces ==
    { NsA, NsAgent, NameAmpAgent, T(<<"N", "s", "/", "T">>), T(<<"n", "s", "_", "t">>) }

QueryChildren ==
    { T(<<"v", "1">>), T(<<"V", "1">>), NameNumRules, T(<<"V", "/", "W">>),
      T(<<"v", "_", "w">>) }

InitQuery ==
    /\ adms \in Loaded(MaxDocs)
    /\ call = [op |-> "AdmSet", exc |-> "none", ret |-> None]
    /\ src = Idle
    /\ cur = Idle
    /\ trail = <<>>

Asked(op, args, r) ==
    /\ call' = [op |-> op, exc |-> r.exc, ret |-> r.val]
    /\ cur' = [form |-> "args", val |-> args]
    /\ UNCHANGED <<adms, src, trail>>

\* adms.get_by_norm_name(name)
GetByNormName(name) ==
    Asked("get_by_norm_name", <<PyStr(name)>>, get_by_norm_name(adms.rows, name))

\* adms[name]
GetItem(name) == Asked("__getitem__", <<PyStr(name)>>, get_by_norm_name(adms.rows, name))

\* adms.get_by_enum(enum)
GetByEnum(enum) == Asked("get_by_enum", <<PyInt(enum)>>, get_by_enum(adms.rows, enum))

\* name in adms
Contains(name) ==
    Asked("__contains__", <<PyStr(name)>>, Ok(PyBool(contains(adms.rows, name) > 0), 0))

\* adms.contains_namespace(namespace)
ContainsNamespace(namespace) ==
    Asked("contains_namespace", <<PyStr(namespace)>>,
          Ok(PyInt(contains_namespace(adms.rows, namespace)), 0))

\* adms.get_child(adm, cls, norm_name=norm_name) for a stored adm
GetChild(r, cls, norm_name) ==
    /\ r \in 1..Len(adms.rows)
    /\ Asked("get_child", <<PyInt(adms.rows[r].oid), [k |-> "class", v |-> cls], PyStr(norm_name)>>,
             get_child(adms.rows[r], cls, PyStr(norm_name), None))

NextQuery ==
    \/ \E name \in QueryNames : GetByNormName(name)
    \/ \E name \in QueryNames : GetItem(name)
    \/ \E enum \in QueryEnums : GetByEnum(enum)
    \/ \E name \in QueryNames : Contains(name)
    \/ \E namespace \in QuerySpaces : ContainsNamespace(namespace)
    \/ \E r \in 1..MaxDocs, cls \in {"Var", "Rptt"}, norm_name \in QueryChildren :
            GetChild(r, cls, norm_name)

SpecQuery == InitQuery /\ [][NextQuery]_vars

\* C14: get_by_norm_name(name) and adms[name] return the AdmFile whose
\* norm_name is casefold(name) when exactly one is stored and raise KeyError
\* in every other case; get_by_enum does the same on the enum.
C14_LookupFoundOrKeyError ==
    LET Outcome(found) ==
            IF Len(found) = 1
            THEN call.exc = "none" /\ call.ret.oid = found[1].oid
            ELSE call.exc = "KeyError"
    IN  /\ call.op \in {"get_by_norm_name", "__getitem__"}
            => Outcome(SelectSeq(adms.rows,
                   LAMBDA adm : adm.norm_name = PyStr(casefold(cur.val[1].v))))
        /\ call.op = "get_by_enum"
            => Outcome(SelectSeq(adms.rows, LAMBDA adm : adm.enum = cur.val[1]))

\* the rows whose norm_name is the normalized name
RowsNamed(name) ==
    SelectSeq(adms.rows, LAMBDA adm : adm.norm_name = PyStr(normalize_ident(name)))

\* the rows whose norm_namespace is the normalized namespace
RowsInSpace(namespace) ==
    SelectSeq(adms.rows, LAMBDA adm : adm.norm_namespace = PyStr(normalize_ident(namespace)))

\* the children of a class of the row with the oid whose norm_name is the
\* normalized name
ChildrenNamed(oid, cls, name) ==
    LET adm == adms.rows[CHOOSE r \in 1..Len(adms.rows) : adms.rows[r].oid = oid]
    IN  SelectSeq(adm.children,
                  LAMBDA c : c.cls = cls /\ c.norm_name = PyStr(normalize_ident(name)))

\* the ADM was held pending at some time
WasPending(adm) == \E i \in 1..Len(adms.pending_adms) : adms.pending_adms[i].adm.oid = adm.oid

\* C15: identifiers are compared on their normalized text on both sides: a
\* lookup with any spelling that normalizes to a stored name, namespace or
\* child name finds it, and a pending ADM does not keep waiting for a
\* namespace that an ADM loaded after it has.
C15_NormalizedComparison ==
    /\ call.op \in {"get_by_norm_name", "__getitem__"}
        => LET found == RowsNamed(cur.val[1].v)
           IN  Len(found) = 1 => call.exc = "none" /\ call.ret.oid = found[1].oid
    /\ call.op = "__contains__" => call.ret = PyBool(RowsNamed(cur.val[1].v) # <<>>)
    /\ call.op = "contains_namespace"
        => (call.ret.v > 0 <=> RowsInSpace(cur.val[1].v) # <<>>)
    /\ call.op = "get_child"
        => LET found == ChildrenNamed(cur.val[1].v, cur.val[2].v, cur.val[3].v)
           IN  Len(found) = 1 => call.exc = "none" /\ call.ret = found[1]
    /\ \A i \in 1..Len(adms.pending_adms) :
         \A u \in 1..Len(adms.pending_adms[i].uses) :
           \A r \in 1..Len(adms.rows) :
              (/\ adms.rows[r].norm_namespace
                    = PyStr(normalize_ident(adms.pending_adms[i].uses[u]))
               /\ ~WasPending(adms.rows[r]))
              => adms.rows[r].oid < adms.pending_adms[i].adm.oid

-----------------------------------------------------------------------------
(* ace.adm_json: the ADM encoder.  The JSON written is the tree json.dump   *)
(* is given: an object as its list of (key, value) pairs in the order the   *)
(* keys were set.                                                           *)

\* Encoder.to_json_ari
to_json_ari(ari) ==
    JObj(<< <<KeyNs, ari.ns>>, <<KeyNm, ari.nm>> >>
         \o IF ari.ap # <<>>
            THEN << <<KeyAp, PyList([i \in 1..Len(ari.ap) |->
                                JObj(<< <<KeyType, ari.ap[i].type>>,
                                        <<KeyValue, ari.ap[i].value>> >>)])>> >>
            ELSE <<>>)

\* Encoder._get_ac
encoder_get_ac(obj) == PyList([i \in 1..Len(obj.items) |-> to_json_ari(obj.items[i])])

\* getattr(obj, member) of an ORM object: None for a column or scalar
\* relationship never set, the empty list for the collection in_type
getattr(obj, key) ==
    IF key = KeyInType /\ attr_to_member(key) \notin DOMAIN obj.attrs
    THEN [cls |-> "OperParms", items |-> <<>>]
    ELSE Attr(obj, attr_to_member(key))

\* the JSON value written for one key of an object
JsonValue(key, orm_val) ==
    IF key \in {KeyParmspec, KeyColumns}
    THEN PyList([i \in 1..Len(orm_val.items) |->
                    JObj(<< <<KeyType, orm_val.items[i].type>>,
                            <<KeyName, orm_val.items[i].name>> >>)])
    ELSE IF key = KeyInitializer
    THEN JObj(<< <<KeyType, orm_val.type>>, <<KeyPostfix, encoder_get_ac(orm_val.postfix)>> >>)
    ELSE IF key \in {KeyAction, KeyDefinition} THEN encoder_get_ac(orm_val)
    ELSE IF key = KeyInType
    THEN PyList([i \in 1..Len(orm_val.items) |-> orm_val.items[i].type])
    ELSE orm_val

\* Encoder.to_json_obj: the keys of the class but enum, in the order of
\* ATTRMAP, without those whose value is None
to_json_obj(obj) ==
    LET Pairs(keys) == JObj([i \in 1..Len(keys) |-> <<keys[i], JsonValue(keys[i], getattr(obj, keys[i]))>>])
    IN  Pairs(SelectSeq(ATTRMAP[obj.cls],
                        LAMBDA key : key # KeyEnum /\ getattr(obj, key) # None))

\* Encoder._put_section: the pair added to json_adm, none for an empty list
put_section(obj_list, orm_cls) ==
    IF obj_list = <<>> THEN <<>>
    ELSE << <<SECNAMES[orm_cls],
              PyList([i \in 1..Len(obj_list) |-> to_json_obj(obj_list[i])])>> >>

\* the objects of one class of an AdmFile, as its relationship lists them
Section(adm, orm_cls) == SelectSeq(adm.children, LAMBDA c : c.cls = orm_cls)

RECURSIVE PutSections(_, _)
\* the sections from the idx-th class on
PutSections(adm, idx) ==
    IF idx > Len(OrmClasses) THEN <<>>
    ELSE put_section(Section(adm, OrmClasses[idx]), OrmClasses[idx])
         \o PutSections(adm, idx + 1)

\* Encoder.encode: the JSON document written for an AdmFile
adm_encode(adm) ==
    JObj((IF adm.uses # <<>>
          THEN << <<KeyUses, PyList([i \in 1..Len(adm.uses) |-> PyStr(adm.uses[i].namespace)])>> >>
          ELSE <<>>)
         \o PutSections(adm, 1))

RECURSIVE JsonPlain(_)
\* json.load(buf): the infoset of a document, each object a dict of its keys
\* as written, the last pair of a key winning
JsonPlain(j) ==
    CASE j.k = "obj" ->
            PyDict([key \in {j.v[i][1] : i \in 1..Len(j.v)} |->
                JsonPlain(j.v[CHOOSE i \in 1..Len(j.v) :
                            /\ j.v[i][1] = key
                            /\ \A n \in (i + 1)..Len(j.v) : j.v[n][1] # key][2])])
      [] j.k = "list" -> PyList([i \in 1..Len(j.v) |-> JsonPlain(j.v[i])])
      [] OTHER -> j

-----------------------------------------------------------------------------
(* The ADM codec: a JSON document is decoded to an AdmFile and the AdmFile  *)
(* encoded again.                                                           *)

\* the most objects in the Var section of a document
MaxChildren == 2

NameV1 == T(<<"v", "1">>)
NameV2 == T(<<"v", "2">>)

\* an embedded ARI without parameters
AriV1 == JObj(<< <<KeyNs, PyStr(NsA)>>, <<KeyNm, PyStr(T(<<"V", "A", "R", ".", "v", "1">>))>> >>)

\* the objects a Var section is made of: one with name and type, one that
\* gives an enum, one whose key name is written Name, one with an initializer
VarItems ==
    { NamedVar(NameV1),
      JObj(<< <<KeyName, PyStr(NameV2)>>, <<KeyEnum, PyInt(5)>>, <<KeyType, PyStr(TypeUint)>> >>),
      JObj(<< <<T(<<"N", "a", "m", "e">>), PyStr(T(<<"v", "3">>))>>, <<KeyType, PyStr(TypeUint)>> >>),
      JObj(<< <<KeyName, PyStr(T(<<"v", "4">>))>>, <<KeyType, PyStr(TypeUint)>>,
              <<KeyInitializer, JObj(<< <<KeyType, PyStr(TypeUint)>>,
                                        <<KeyPostfix, PyList(<<AriV1>>)>> >>)>> >>) }

\* the further sections of a document: none, a Ctrl section whose object
\* gives an enum and a parmspec, or one whose parmspec item has no name
CtrlSections ==
    { <<>>,
      << <<T(<<"C", "t", "r", "l">>),
           PyList(<<JObj(<< <<KeyName, PyStr(NameGenRpts)>>, <<KeyEnum, PyInt(3)>>,
                            <<KeyParmspec, PyList(<<TypeName(T(<<"A", "C">>), T(<<"i", "d", "s">>))>>)>> >>)>>)>> >>,
      << <<T(<<"C", "t", "r", "l">>),
           PyList(<<JObj(<< <<KeyName, PyStr(NameGenRpts)>>,
                            <<KeyParmspec, PyList(<<JObj(<< <<KeyType, PyStr(T(<<"A", "C">>))>> >>)>>)>> >>)>>)>> >> }

\* the sequences of at most n elements of a set
SeqsUpTo(S, n) == UNION {[1..k -> S] : k \in 0..n}

\* a document with the mdat objects name and namespace and, when it has
\* any, its uses and Var section
AdmJson(uses, var_objs, more) ==
    JObj(<< <<T(<<"M", "d", "a", "t">>),
              PyList(<< MdatItem(KeyName, PyStr(T(<<"a">>))),
                        MdatItem(KeyNamespace, PyStr(NsA)) >>)>> >>
         \o (IF uses # <<>> THEN << <<KeyUses, PyList([i \in 1..Len(uses) |-> PyStr(uses[i])])>> >>
             ELSE <<>>)
         \o (IF var_objs # <<>> THEN << <<T(<<"V", "a", "r">>), PyList(var_objs)>> >> ELSE <<>>)
         \o more)

AdmJsons ==
    {AdmJson(uses, var_objs, more) :
        uses \in {<<>>, <<NsB>>}, var_objs \in SeqsUpTo(VarItems, MaxChildren),
        more \in CtrlSections}

AsJson(val) == [form |-> "json", val |-> val]
AsAdm(val) == [form |-> "adm", val |-> val]

InitAdm ==
    /\ adms = [rows |-> <<>>, pending_adms |-> <<>>, next_oid |-> 1]
    /\ call = [op |-> "AdmSet", exc |-> "none", ret |-> None]
    /\ src \in {AsJson(doc) : doc \in AdmJsons}
    /\ cur = src
    /\ trail = <<>>

\* adm_json.Decoder.decode
DecodeAdm ==
    /\ cur.form = "json"
    /\ LET Put(r) == Coded("decode_adm", r.exc, AsAdm(r.val))
       IN  Put(adm_decode(cur.val, None, 1))

\* adm_json.Encoder.encode
EncodeAdm ==
    /\ cur.form = "adm"
    /\ Coded("encode_adm", "none", AsJson(adm_encode(cur.val)))

NextAdm == DecodeAdm \/ EncodeAdm

SpecAdm == InitAdm /\ [][NextAdm]_vars

\* the names of the objects of a section of a document as json.load with the
\* decoder's hook gives it
NamesInDoc(doc, orm_cls) ==
    LET Names(sec) == [i \in 1..Len(sec) |-> DictGet(sec[i], KeyName, None)]
    IN  Names(DictGet(JsonLoad(doc), casefold(SECNAMES[orm_cls]), PyList(<<>>)).v)

\* the objects of a section of a written document
ItemsWritten(doc, orm_cls) ==
    LET At(found) == IF found = <<>> THEN <<>> ELSE found[1][2].v
    IN  At(SelectSeq(doc.v, LAMBDA pair : pair[1] = SECNAMES[orm_cls]))

C17_AdmJsonRoundTrip ==
    (/\ Len(trail) = 2
     /\ trail[1].op = "decode_adm"
     /\ trail[1].exc = "none"
     /\ trail[2].op = "encode_adm")
    => /\ trail[2].exc = "none"
       /\ JsonPlain(trail[2].out.val) = JsonPlain(src.val)

-----------------------------------------------------------------------------
(* ace.constraints: the checks of the stored ADMs.  An Issue holds the name *)
(* of its check, the norm_name of its ADM, the object it is about (the oid  *)
(* of the AdmFile, with class and enum for an object of a section) and the  *)
(* parts its detail text is formatted from.                                 *)

\* Issue(obj=obj, detail=detail)
Issue(obj, detail) ==
    [check_name |-> None, adm_name |-> None, obj |-> obj, detail |-> detail]

\* an AdmFile as the obj of an Issue
AdmRef(adm) == [cls |-> "AdmFile", oid |-> adm.oid, enum |-> None]

\* an object of a section of adm as the obj of an Issue
ChildRef(adm, top_obj) == [cls |-> top_obj.cls, oid |-> adm.oid, enum |-> top_obj.enum]

RECURSIVE Concat(_)
\* the lists of a list, joined in order
Concat(lists) == IF lists = <<>> THEN <<>> ELSE Head(lists) \o Concat(Tail(lists))

KeyVersion == T(<<"v", "e", "r", "s", "i", "o", "n">>)

\* minimal_metadata: obj is None or an AdmFile; the session holds no Mdat
\* without an AdmFile, so each of the four counts is 0 when obj is None
minimal_metadata(obj) ==
    IF obj = None
    THEN Ok([i \in 1..4 |->
                Issue(None, [text |-> "ADM is missing required metadata",
                             name |-> <<KeyName, KeyNamespace, KeyEnum, KeyVersion>>[i],
                             value |-> None])], 0)
    ELSE Ok(<<>>, 0)

\* the check with an Issue for the first row only of each shared value
unique_adm_names_first_row(rows) ==
    LET Value(adm, name) ==
            CASE name = "norm_name" -> adm.norm_name
              [] name = "norm_namespace" -> adm.norm_namespace
              [] OTHER -> adm.enum
        Having(name) ==
            SelectSeq([i \in 1..Len(rows) |-> i], LAMBDA i :
                /\ \A j \in 1..(i - 1) : Value(rows[j], name) # Value(rows[i], name)
                /\ \E j \in (i + 1)..Len(rows) : Value(rows[j], name) = Value(rows[i], name))
        Search(name, found) ==
            [g \in 1..Len(found) |->
                Issue(AdmRef(rows[found[g]]), [text |-> "Multiple ADMs with metadata",
                                               name |-> name,
                                               value |-> Value(rows[found[g]], name)])]
        ForName(name) == Search(name, Having(name))
    IN  Ok(ForName("norm_name") \o ForName("norm_namespace") \o ForName("enum"), 0)

\* unique_adm_names.__call__: for each of the three attributes, for each
\* value that more than one row has (in the order of its first row), an
\* Issue for each row with that value (None is one value: IS NULL)
unique_adm_names(rows) ==
    LET Value(adm, name) ==
            CASE name = "norm_name" -> adm.norm_name
              [] name = "norm_namespace" -> adm.norm_namespace
              [] OTHER -> adm.enum
        Having(name) ==
            SelectSeq([i \in 1..Len(rows) |-> i], LAMBDA i :
                /\ \A j \in 1..(i - 1) : Value(rows[j], name) # Value(rows[i], name)
                /\ \E j \in (i + 1)..Len(rows) : Value(rows[j], name) = Value(rows[i], name))
        Found(name, value) ==
            LET query == SelectSeq(rows, LAMBDA adm : Value(adm, name) = value)
            IN  [i \in 1..Len(query) |->
                    Issue(AdmRef(query[i]), [text |-> "Multiple ADMs with metadata",
                                             name |-> name, value |-> value])]
        Search(name, found) ==
            Concat([g \in 1..Len(found) |-> Found(name, Value(rows[found[g]], name))])
        ForName(name) == Search(name, Having(name))
    IN  Ok(ForName("norm_name") \o ForName("norm_namespace") \o ForName("enum"), 0)

\* os.path.splitext(name)[0]: the name up to its last dot, when a dot
\* follows its first character
SplitExt(name) ==
    LET dots == {i \in 2..Len(name) : name[i] = Ord(".")}
    IN  IF dots = {} THEN name
        ELSE SubSeq(name, 1, (CHOOSE i \in dots : \A j \in dots : j <= i) - 1)

\* same_file_name
same_file_name(obj) ==
    IF obj.abs_file_path = None THEN Ok(<<>>, 0)
    ELSE IF obj.norm_name # PyStr(SplitExt(BaseName(obj.abs_file_path.v)))
    THEN Ok(<<Issue(AdmRef(obj), [text |-> "stored in differently named file",
                                  name |-> "norm_name", value |-> obj.abs_file_path])>>, 0)
    ELSE Ok(<<>>, 0)

\* unique_object_names.__call__: in each section an Issue for the second
\* object of a name
unique_object_names(obj) ==
    LET Dupes(obj_list) ==
            SelectSeq([i \in 1..Len(obj_list) |-> i], LAMBDA i :
                Cardinality({j \in 1..(i - 1) :
                                Attr(obj_list[j], KeyName) = Attr(obj_list[i], KeyName)}) = 1)
        Found(obj_list, dupes) ==
            [d \in 1..Len(dupes) |->
                Issue(ChildRef(obj, obj_list[dupes[d]]),
                      [text |-> "the name is duplicated", name |-> obj_list[dupes[d]].cls,
                       value |-> Attr(obj_list[dupes[d]], KeyName)])]
        InList(obj_list) == Found(obj_list, Dupes(obj_list))
    IN  Ok(Concat([c \in 1..Len(OrmClasses) |-> InList(Section(obj, OrmClasses[c]))]), 0)

\* valid_type_name._check_type: an Issue when StructType has no member of
\* that name (a type that is no text names none)
check_type_name(adm, top_obj, type_name) ==
    IF type_name.k = "str" /\ \E f \in DOMAIN StructTypeNames : StructTypeNames[f] = type_name.v
    THEN <<>>
    ELSE <<Issue(ChildRef(adm, top_obj),
                 [text |-> "the type name is not known", name |-> Attr(top_obj, KeyName),
                  value |-> type_name])>>

\* valid_type_name.__call__ for an AdmFile: the types of its const, edd,
\* oper and var objects
valid_type_name(obj) ==
    LET InTypes(parms) ==
            IF parms = None THEN <<>> ELSE [i \in 1..Len(parms.items) |-> parms.items[i].type]
        Types(top_obj) ==
            CASE top_obj.cls = "Oper" ->
                    <<Attr(top_obj, attr_to_member(KeyResultType))>>
                    \o InTypes(Attr(top_obj, attr_to_member(KeyInType)))
              [] top_obj.cls = "Var" ->
                    <<Attr(top_obj, KeyType)>>
                    \o (IF Attr(top_obj, KeyInitializer) # None
                        THEN <<Attr(top_obj, KeyInitializer).type>> ELSE <<>>)
              [] OTHER -> <<Attr(top_obj, KeyType)>>
        Checked(top_obj, types) ==
            Concat([i \in 1..Len(types) |-> check_type_name(obj, top_obj, types[i])])
        InList(container) ==
            Concat([i \in 1..Len(container) |-> Checked(container[i], Types(container[i]))])
    IN  Ok(InList(Section(obj, "Const")) \o InList(Section(obj, "Edd"))
           \o InList(Section(obj, "Oper")) \o InList(Section(obj, "Var")), 0)

\* util.get_ident: ValueError when nm has no dot, KeyError when the text
\* before its first dot names no member of StructType
get_ident(obj) ==
    LET Typed(type_name, remain) ==
            IF \A f \in DOMAIN StructTypeNames : StructTypeNames[f] # upper(type_name)
            THEN Raise("KeyError", 0)
            ELSE Ok(Identity(PyStr(normalize_ident(obj.ns.v)),
                             StructType[CHOOSE f \in DOMAIN StructTypeNames :
                                           StructTypeNames[f] = upper(type_name)],
                             PyStr(normalize_ident(remain)), None, None), 0)
        Parts(parts) ==
            IF Len(parts) < 2 THEN Raise("ValueError", 0)
            ELSE IF obj.ns.k # "str" THEN Raise("AttributeError", 0)
            ELSE Typed(parts[1], SubSeq(obj.nm.v, Len(parts[1]) + 2, Len(obj.nm.v)))
    IN  IF obj.nm.k # "str" THEN Raise("AttributeError", 0)
        ELSE Parts(Split(obj.nm.v, Ord(".")))

\* Identity.strip_name: the name without its parameters
strip_name(ident) ==
    [ident EXCEPT !.name = PyStr(Split(ident.name.v, Ord("("))[1])]

\* util.find_ident: the object of that class, namespace and name, None when
\* there is none or the type has no ORM class, MultipleResultsFound when
\* more than one row matches
find_ident(rows, ident) ==
    LET Members(adm, cls) ==
            SelectSeq(Section(adm, cls), LAMBDA c :
                c.norm_name = PyStr(normalize_ident(ident.name.v)))
        Joined(cls) ==
            Concat([r \in 1..Len(rows) |->
                       IF rows[r].norm_namespace = PyStr(normalize_ident(ident.namespace.v))
                       THEN Members(rows[r], cls) ELSE <<>>])
    IN  IF MemberOf(ident.type_enum) \notin DOMAIN ORM_TYPE THEN Ok(None, 0)
        ELSE one_or_none(Joined(ORM_TYPE[MemberOf(ident.type_enum)]))

\* valid_reference_ari.__call__ for an ARI of the object top_obj
reference_ari(adm, rows, top_obj, ari) ==
    Bind(get_ident(ari), LAMBDA ident :
    Bind(find_ident(rows, strip_name(ident.val)), LAMBDA found :
    IF found.val = None
    THEN Ok(<<Issue(ChildRef(adm, top_obj),
                    [text |-> "the reference ARI is not resolvable",
                     name |-> Attr(top_obj, KeyName), value |-> strip_name(ident.val)])>>, 0)
    ELSE Ok(<<>>, 0)))

RECURSIVE ReferenceItems(_, _, _, _, _)
\* valid_reference_ari._iter_call over the ARIs of one object, from the
\* idx-th on
ReferenceItems(adm, rows, top_obj, items, idx) ==
    IF idx > Len(items) THEN Ok(<<>>, 0)
    ELSE Bind(reference_ari(adm, rows, top_obj, items[idx]), LAMBDA first :
         Bind(ReferenceItems(adm, rows, top_obj, items, idx + 1), LAMBDA rest :
         Ok(first.val \o rest.val, 0)))

RECURSIVE ReferenceObjects(_, _, _, _)
\* valid_reference_ari._iter_call over the mac, rptt and var objects of an
\* AdmFile, from the idx-th on; an object without its AC has no items
ReferenceObjects(adm, rows, container, idx) ==
    LET Items(top_obj) ==
            CASE top_obj.cls = "Mac" ->
                    IF Attr(top_obj, KeyAction) = None THEN Raise("AttributeError", 0)
                    ELSE Ok(Attr(top_obj, KeyAction).items, 0)
              [] top_obj.cls = "Rptt" ->
                    IF Attr(top_obj, KeyDefinition) = None THEN Raise("AttributeError", 0)
                    ELSE Ok(Attr(top_obj, KeyDefinition).items, 0)
              [] OTHER ->
                    IF Attr(top_obj, KeyInitializer) = None THEN Ok(<<>>, 0)
                    ELSE Ok(Attr(top_obj, KeyInitializer).postfix.items, 0)
    IN  IF idx > Len(container) THEN Ok(<<>>, 0)
        ELSE Bind(Items(container[idx]), LAMBDA items :
             Bind(ReferenceItems(adm, rows, container[idx], items.val, 1), LAMBDA first :
             Bind(ReferenceObjects(adm, rows, container, idx + 1), LAMBDA rest :
             Ok(first.val \o rest.val, 0))))

\* valid_reference_ari.__call__ for an AdmFile
valid_reference_ari(obj, rows) ==
    ReferenceObjects(obj, rows,
                     Section(obj, "Mac") \o Section(obj, "Rptt") \o Section(obj, "Var"), 1)

\* CONSTRAINTS: the registered checks in the order of their definition, with
\* their is_global
CONSTRAINTS ==
    << [name |-> "ace.constraints.basic.minimal_metadata", is_global |-> FALSE],
       [name |-> "ace.constraints.basic.unique_adm_names", is_global |-> TRUE],
       [name |-> "ace.constraints.basic.same_file_name", is_global |-> FALSE],
       [name |-> "ace.constraints.basic.unique_object_names", is_global |-> FALSE],
       [name |-> "ace.constraints.basic.valid_type_name", is_global |-> FALSE],
       [name |-> "ace.constraints.basic.valid_reference_ari", is_global |-> FALSE] >>

\* cst(issuelist, adm, db_sess): the Issues the check of that name appends;
\* adm is None for a global check
Constraint(cst_name, adm, rows) ==
    CASE cst_name = "ace.constraints.basic.minimal_metadata" -> minimal_metadata(adm)
      [] cst_name = "ace.constraints.basic.unique_adm_names" -> unique_adm_names(rows)
      [] cst_name = "ace.constraints.basic.same_file_name" -> same_file_name(adm)
      [] cst_name = "ace.constraints.basic.unique_object_names" -> unique_object_names(adm)
      [] cst_name = "ace.constraints.basic.valid_type_name" -> valid_type_name(adm)
      [] OTHER -> valid_reference_ari(adm, rows)

\* Checker._add_result: the Issues of one check, with their adm_name and
\* check_name set
add_result(cst_name, adm, rows) ==
    LET NameOf(obj) ==
            IF adm # None THEN adm.norm_name
            ELSE IF obj # None /\ obj.cls = "AdmFile"
            THEN (CHOOSE a \in {rows[r] : r \in 1..Len(rows)} : a.oid = obj.oid).norm_name
            ELSE None
    IN  Bind(Constraint(cst_name, adm, rows), LAMBDA issuelist :
        Ok([i \in 1..Len(issuelist.val) |->
               [issuelist.val[i] EXCEPT !.adm_name = NameOf(issuelist.val[i].obj),
                                        !.check_name = cst_name]], 0))

RECURSIVE AddResults(_, _, _)
\* the calls of _add_result from the idx-th on; an exception of one ends all
AddResults(calls, rows, idx) ==
    IF idx > Len(calls) THEN Ok(<<>>, 0)
    ELSE Bind(add_result(calls[idx].name, calls[idx].adm, rows), LAMBDA issuelist :
         Bind(AddResults(calls, rows, idx + 1), LAMBDA rest :
         Ok(issuelist.val \o rest.val, 0)))

\* the calls of _add_result with the per-ADM checks made before the global
\* ones
check_calls_globals_last(rows, src_adm) ==
    LET Of(is_global, adm) ==
            [c \in 1..Len(SelectSeq(CONSTRAINTS, LAMBDA cst : cst.is_global = is_global)) |->
                [name |-> SelectSeq(CONSTRAINTS, LAMBDA cst : cst.is_global = is_global)[c].name,
                 adm |-> adm]]
        Calls(adm_list) ==
            Concat([a \in 1..Len(adm_list) |-> Of(FALSE, adm_list[a])]) \o Of(TRUE, None)
    IN  Calls(IF src_adm # None THEN <<src_adm>> ELSE rows)

\* the calls of _add_result that Checker.check makes, in order: the global
\* checks once with adm=None, then the others for each ADM of adm_list
\* (src_adm alone, or all rows when it is None)
check_calls(rows, src_adm) ==
    LET Of(is_global, adm) ==
            [c \in 1..Len(SelectSeq(CONSTRAINTS, LAMBDA cst : cst.is_global = is_global)) |->
                [name |-> SelectSeq(CONSTRAINTS, LAMBDA cst : cst.is_global = is_global)[c].name,
                 adm |-> adm]]
        Calls(adm_list) ==
            Of(TRUE, None) \o Concat([a \in 1..Len(adm_list) |-> Of(FALSE, adm_list[a])])
    IN  Calls(IF src_adm # None THEN <<src_adm>> ELSE rows)

\* Checker.check: the Issues of its calls of _add_result, joined in order
check(rows, src_adm) == AddResults(check_calls(rows, src_adm), rows, 1)

RECURSIVE Invoked(_, _, _)
\* the checks that were invoked, from the idx-th call on, each with the obj
\* it was given and its Issues: the calls up to the first that raises
Invoked(calls, rows, idx) ==
    IF idx > Len(calls) THEN <<>>
    ELSE LET K(r) ==
                 << [name |-> calls[idx].name,
                     obj |-> IF calls[idx].adm = None THEN None ELSE AdmRef(calls[idx].adm),
                     exc |-> r.exc,
                     issues |-> IF r.exc = "none" THEN r.val ELSE <<>>] >>
                 \o (IF r.exc = "none" THEN Invoked(calls, rows, idx + 1) ELSE <<>>)
         IN  K(add_result(calls[idx].name, calls[idx].adm, rows))

-----------------------------------------------------------------------------
(* The checks of a catalog: one AdmSet after some load_from_data calls that *)
(* keep duplicates, and the calls of Checker.check on its session.          *)

\* an embedded ARI
EmbeddedAri(ns, nm) == JObj(<< <<KeyNs, PyStr(ns)>>, <<KeyNm, PyStr(nm)>> >>)

\* a macro with its name and the ARIs of its action
NamedMac(name, action) == JObj(<< <<KeyName, PyStr(name)>>, <<KeyAction, PyList(action)>> >>)

\* a document whose macro names the variable v1 of nb, whose report template
\* names an object no document has, and whose two variables share one name,
\* the first with a type written in lower case
DocRef ==
    AdmDoc(T(<<"r">>), T(<<"n", "r">>), PyInt(10), <<>>,
           << <<T(<<"M", "a", "c">>),
                PyList(<<NamedMac(T(<<"m", "1">>),
                                  <<EmbeddedAri(NsB, T(<<"V", "a", "r", ".", "v", "1">>))>>)>>)>>,
              <<T(<<"R", "p", "t", "t">>),
                PyList(<<JObj(<< <<KeyName, PyStr(T(<<"r", "1">>))>>,
                                 <<KeyDefinition,
                                   PyList(<<EmbeddedAri(NsB, T(<<"E", "D", "D", ".", "e", "1">>))>>)>> >>)>>)>>,
              <<T(<<"V", "a", "r">>),
                PyList(<<JObj(<< <<KeyName, PyStr(NameV1)>>,
                                 <<KeyType, PyStr(T(<<"u", "i", "n", "t">>))>> >>),
                         NamedVar(NameV1)>>)>> >>)

\* a document whose macro holds an ARI whose nm has no dot
DocNoDot ==
    AdmDoc(T(<<"d">>), T(<<"n", "d">>), PyInt(11), <<>>,
           << <<T(<<"M", "a", "c">>),
                PyList(<<NamedMac(T(<<"m", "1">>), <<EmbeddedAri(NsB, NameV1)>>)>>)>> >>)

\* a document whose variable holds an ARI whose nm names no type
DocNoType ==
    AdmDoc(T(<<"t">>), T(<<"n", "t">>), PyInt(12), <<>>,
           << <<T(<<"V", "a", "r">>),
                PyList(<<JObj(<< <<KeyName, PyStr(NameV2)>>, <<KeyType, PyStr(TypeUint)>>,
                                 <<KeyInitializer,
                                   JObj(<< <<KeyType, PyStr(TypeUint)>>,
                                           <<KeyPostfix,
                                             PyList(<<EmbeddedAri(NsB, T(<<"F", "O", "O", ".", "v", "1">>))>>)>> >>)>> >>)>>)>> >>)

\* a document whose macro names its own variable
DocSelf ==
    AdmDoc(T(<<"s">>), T(<<"n", "s">>), PyInt(13), <<>>,
           << <<T(<<"M", "a", "c">>),
                PyList(<<NamedMac(T(<<"m", "1">>),
                                  <<EmbeddedAri(T(<<"n", "s">>),
                                                T(<<"V", "A", "R", ".", "v", "1">>))>>)>>)>>,
              <<T(<<"V", "a", "r">>), PyList(<<NamedVar(NameV1)>>)>> >>)

\* a variable or data definition with its name and type
Typed(name, type) == JObj(<< <<KeyName, PyStr(name)>>, <<KeyType, PyStr(type)>> >>)

\* a document with the enum of DocB, whose two variables have names that
\* differ in case only and whose three data definitions have one name
DocCase ==
    AdmDoc(T(<<"c">>), T(<<"n", "c">>), PyInt(2), <<>>,
           << <<T(<<"E", "d", "d">>),
                PyList(<<Typed(T(<<"e">>), TypeUint), Typed(T(<<"e">>), TypeUint),
                         Typed(T(<<"e">>), TypeUint)>>)>>,
              <<T(<<"V", "a", "r">>),
                PyList(<<Typed(T(<<"V", "1">>), TypeUint), Typed(NameV1, TypeUint)>>)>> >>)

CheckDocs == {DocA, DocAgent, DocB, DocPlain, DocRef, DocNoDot, DocNoType, DocSelf, DocCase}

\* the most load_from_data calls made before the checks
MaxAdms == 2

RECURSIVE Stored(_)
\* the AdmSets after at most n calls of load_from_data with del_dupe=False
Stored(n) ==
    IF n = 0 THEN {[rows |-> <<>>, pending_adms |-> <<>>, next_oid |-> 1]}
    ELSE LET More(sets) ==
                 sets \cup {load_from_data(set, doc, FALSE).set : set \in sets, doc \in CheckDocs}
         IN  More(Stored(n - 1))

InitCheck ==
    /\ adms \in Stored(MaxAdms)
    /\ call = [op |-> "Checker", exc |-> "none", ret |-> None]
    /\ src = Idle
    /\ cur = Idle
    /\ trail = <<>>

\* a call of Checker.check: trail gets the checks it invoked
Checked(args, src_adm) ==
    LET K(r) ==
            /\ call' = [op |-> "check", exc |-> r.exc, ret |-> r.val]
            /\ cur' = [form |-> "args", val |-> args]
            /\ trail' = Invoked(check_calls(adms.rows, src_adm), adms.rows, 1)
            /\ UNCHANGED <<adms, src>>
    IN  K(check(adms.rows, src_adm))

\* Checker(db_sess).check()
Check == Checked(<<None>>, None)

\* Checker(db_sess).check(src) for a stored src
CheckAdm(r) ==
    /\ r \in 1..Len(adms.rows)
    /\ Checked(<<PyInt(adms.rows[r].oid)>>, adms.rows[r])

NextCheck ==
    \/ Check
    \/ \E r \in 1..MaxAdms : CheckAdm(r)

SpecCheck == InitCheck /\ [][NextCheck]_vars

\* the Issues of the last check() of the given check name
IssuesOf(cst_name) == SelectSeq(call.ret, LAMBDA issue : issue.check_name = cst_name)

\* C18: no content of the stored ADMs makes Checker.check raise: a call
\* of check ends without an exception and returns a list of Issues.
C18_CheckNeverRaises == call.op = "check" => call.exc = "none"

\* the AdmFiles the last call of check ran over: the stored src, or all rows
AdmsChecked ==
    IF cur.val[1] = None THEN adms.rows
    ELSE SelectSeq(adms.rows, LAMBDA adm : PyInt(adm.oid) = cur.val[1])

\* the required mdat entries an AdmFile has none of
MissingMetadata(adm) ==
    {name \in {KeyName, KeyNamespace, KeyEnum, KeyVersion} :
        MdatValues(adm.children, name) = <<>>}

\* C19: a check that runs over an AdmFile returns, for each of the mdat
\* entries name, namespace, enum and version the AdmFile lacks, a
\* minimal_metadata Issue about that AdmFile, and no minimal_metadata Issue
\* about an AdmFile that has all four.
C19_MinimalMetadataIssues ==
    (call.op = "check" /\ call.exc = "none") =>
        \A a \in 1..Len(AdmsChecked) :
            LET About(adm) ==
                    SelectSeq(IssuesOf("ace.constraints.basic.minimal_metadata"),
                              LAMBDA issue : issue.obj = AdmRef(adm))
                Holds(adm, issues) ==
                    /\ \A name \in MissingMetadata(adm) :
                            \E i \in 1..Len(issues) : issues[i].detail.name = name
                    /\ MissingMetadata(adm) = {} => issues = <<>>
            IN  Holds(AdmsChecked[a], About(AdmsChecked[a]))

\* the value an AdmFile has of one of the three attributes
AttrValue(adm, name) ==
    CASE name = "norm_name" -> adm.norm_name
      [] name = "norm_namespace" -> adm.norm_namespace
      [] OTHER -> adm.enum

\* the rows that have the value of an attribute
Sharing(name, value) == {r \in 1..Len(adms.rows) : AttrValue(adms.rows[r], name) = value}

\* C20: when check() returns, then for each of norm_name, norm_namespace
\* and enum and each value that k >= 2 stored AdmFiles share it has returned
\* exactly k unique_adm_names Issues for that attribute and value, one about
\* each of these AdmFiles with its norm_name as adm_name; for a value only
\* one AdmFile has it has returned none, so none at all when all differ.
C20_UniqueAdmNamesIssues ==
    (call.op = "check" /\ cur.val[1] = None /\ call.exc = "none") =>
        LET For(name, value, issues) ==
                IF Cardinality(Sharing(name, value)) >= 2
                THEN /\ Len(issues) = Cardinality(Sharing(name, value))
                     /\ \A r \in Sharing(name, value) :
                            \E i \in 1..Len(issues) :
                                /\ issues[i].obj = AdmRef(adms.rows[r])
                                /\ issues[i].adm_name = adms.rows[r].norm_name
                ELSE issues = <<>>
            Holds(all) ==
                /\ \A name \in {"norm_name", "norm_namespace", "enum"} :
                   \A r \in 1..Len(adms.rows) :
                        For(name, AttrValue(adms.rows[r], name),
                            SelectSeq(all, LAMBDA issue :
                                /\ issue.detail.name = name
                                /\ issue.detail.value = AttrValue(adms.rows[r], name)))
                /\ \A i \in 1..Len(all) :
                        Sharing(all[i].detail.name, all[i].detail.value) # {}
        IN  Holds(IssuesOf("ace.constraints.basic.unique_adm_names"))

\* check() has returned for two AdmFiles that share their norm_name and
\* differ in namespace and enum, with two Issues of unique_adm_names
C20_Witness ==
    /\ call.op = "check" /\ cur.val[1] = None /\ call.exc = "none"
    /\ Len(adms.rows) = 2
    /\ adms.rows[1].norm_name = adms.rows[2].norm_name
    /\ adms.rows[1].norm_namespace # adms.rows[2].norm_namespace
    /\ adms.rows[1].enum # adms.rows[2].enum
    /\ Len(IssuesOf("ace.constraints.basic.unique_adm_names")) = 2

\* the Issues of the last check of the given check name about the objects of
\* one section of an AdmFile
SectionIssues(cst_name, adm, orm_cls) ==
    SelectSeq(IssuesOf(cst_name), LAMBDA issue :
        issue.obj # None /\ issue.obj.oid = adm.oid /\ issue.obj.cls = orm_cls)

\* C21: for each section of a checked AdmFile and each norm_name two or
\* more of its children have, the result holds exactly one
\* unique_object_names Issue about a child of that norm_name, and it is about
\* the second one; a section whose norm_names all differ gives none.
C21_UniqueObjectNamesIssues ==
    (call.op = "check" /\ call.exc = "none") =>
        \A a \in 1..Len(AdmsChecked), c \in 1..Len(OrmClasses) :
            LET Holds(adm, sec, issues) ==
                    LET Same(i) == {j \in 1..Len(sec) : sec[j].norm_name = sec[i].norm_name}
                        Second(same) ==
                            CHOOSE j \in same : Cardinality({m \in same : m < j}) = 1
                    IN  /\ \A i \in 1..Len(sec) :
                            Cardinality(Same(i)) >= 2 =>
                                /\ Cardinality({k \in 1..Len(issues) :
                                        \E j \in Same(i) :
                                            issues[k].obj = ChildRef(adm, sec[j])}) = 1
                                /\ \E k \in 1..Len(issues) :
                                        issues[k].obj = ChildRef(adm, sec[Second(Same(i))])
                        /\ (\A i \in 1..Len(sec) : Cardinality(Same(i)) = 1) => issues = <<>>
            IN  Holds(AdmsChecked[a], Section(AdmsChecked[a], OrmClasses[c]),
                      SectionIssues("ace.constraints.basic.unique_object_names",
                                    AdmsChecked[a], OrmClasses[c]))

\* the type strings of a Const, Edd, Oper or Var object: its type (result-type
\* and in-type for an Oper) and the type of its initializer
TypesOf(top_obj) ==
    LET InTypes(parms) ==
            IF parms = None THEN <<>> ELSE [i \in 1..Len(parms.items) |-> parms.items[i].type]
    IN  CASE top_obj.cls = "Oper" ->
                <<Attr(top_obj, attr_to_member(KeyResultType))>>
                \o InTypes(Attr(top_obj, attr_to_member(KeyInType)))
          [] top_obj.cls = "Var" ->
                <<Attr(top_obj, KeyType)>>
                \o (IF Attr(top_obj, KeyInitializer) # None
                    THEN <<Attr(top_obj, KeyInitializer).type>> ELSE <<>>)
          [] OTHER -> <<Attr(top_obj, KeyType)>>

\* the type string names a member of StructType when case is ignored
NamesStructType(type_name) ==
    type_name.k = "str"
    /\ \E f \in DOMAIN StructTypeNames : StructTypeNames[f] = upper(type_name.v)

\* C22: a check returns, for each Const, Edd, Oper and Var object of a
\* checked AdmFile, one valid_type_name Issue about that object for each of
\* its type strings that names no StructType member when case is ignored,
\* and no other valid_type_name Issue about it.
C22_ValidTypeNameIssues ==
    (call.op = "check" /\ call.exc = "none") =>
        \A a \in 1..Len(AdmsChecked), cls \in {"Const", "Edd", "Oper", "Var"} :
            LET Holds(adm, sec, issues) ==
                    \A i \in 1..Len(sec) :
                        Cardinality({k \in 1..Len(issues) :
                                        issues[k].obj = ChildRef(adm, sec[i])})
                        = Cardinality({t \in 1..Len(TypesOf(sec[i])) :
                                          ~NamesStructType(TypesOf(sec[i])[t])})
            IN  Holds(AdmsChecked[a], Section(AdmsChecked[a], cls),
                      SectionIssues("ace.constraints.basic.valid_type_name",
                                    AdmsChecked[a], cls))

\* the embedded ARIs of an AdmFile, each with the object that holds it: those
\* of the actions of its mac objects, of the definitions of its rptt objects
\* and of the initializers of its var objects, in this order
EmbeddedAris(adm) ==
    LET Items(top_obj) ==
            CASE top_obj.cls = "Mac" -> Attr(top_obj, KeyAction).items
              [] top_obj.cls = "Rptt" -> Attr(top_obj, KeyDefinition).items
              [] OTHER -> IF Attr(top_obj, KeyInitializer) = None THEN <<>>
                          ELSE Attr(top_obj, KeyInitializer).postfix.items
        Held(top_obj, items) ==
            [j \in 1..Len(items) |-> [top_obj |-> top_obj, ari |-> items[j]]]
        Of(container) ==
            Concat([i \in 1..Len(container) |-> Held(container[i], Items(container[i]))])
    IN  Of(Section(adm, "Mac") \o Section(adm, "Rptt") \o Section(adm, "Var"))

\* the text of nm before its first dot, in upper case
KindName(ari) == upper(Split(ari.nm.v, Ord("."))[1])

\* nm is of the form TYPE.name with the name of a StructType member as TYPE
HasKind(ari) ==
    /\ Len(Split(ari.nm.v, Ord("."))) >= 2
    /\ \E f \in DOMAIN StructTypeNames : StructTypeNames[f] = KindName(ari)

\* a stored ADM of the normalized namespace of the ARI has a child of its kind
\* with its normalized name (the name without its parameters)
Resolves(ari) ==
    LET Kind(f) == IF f \in DOMAIN ORM_TYPE THEN ORM_TYPE[f] ELSE "none"
        Named(cls, name) ==
            \E r \in 1..Len(adms.rows) :
                /\ adms.rows[r].norm_namespace = PyStr(normalize_ident(ari.ns.v))
                /\ \E i \in 1..Len(adms.rows[r].children) :
                        /\ adms.rows[r].children[i].cls = cls
                        /\ adms.rows[r].children[i].norm_name = PyStr(normalize_ident(name))
    IN  Named(Kind(CHOOSE f \in DOMAIN StructTypeNames : StructTypeNames[f] = KindName(ari)),
              Split(SubSeq(ari.nm.v, Len(Split(ari.nm.v, Ord("."))[1]) + 2, Len(ari.nm.v)),
                    Ord("("))[1])

\* C23: when every embedded ARI of the checked AdmFiles has a kind, check
\* returns, and about each checked AdmFile its valid_reference_ari Issues
\* are, in the order of the embedded ARIs, one Issue about the holding object
\* for each ARI that no stored child resolves, and none for the others.
C23_ValidReferenceAriIssues ==
    (/\ call.op = "check"
     /\ \A a \in 1..Len(AdmsChecked) :
            \A e \in 1..Len(EmbeddedAris(AdmsChecked[a])) :
                HasKind(EmbeddedAris(AdmsChecked[a])[e].ari))
    => /\ call.exc = "none"
       /\ \A a \in 1..Len(AdmsChecked) :
            LET Expected(adm, held) ==
                    [e \in 1..Len(held) |-> ChildRef(adm, held[e].top_obj)]
                Got(issues) == [k \in 1..Len(issues) |-> issues[k].obj]
                Holds(adm) ==
                    Got(SelectSeq(IssuesOf("ace.constraints.basic.valid_reference_ari"),
                                  LAMBDA issue : issue.obj.oid = adm.oid))
                    = Expected(adm, SelectSeq(EmbeddedAris(adm),
                                              LAMBDA h : ~Resolves(h.ari)))
            IN  Holds(AdmsChecked[a])

\* the Issues of valid_reference_ari of the calls of check that return
ReferenceIssuesWhenReturned == call.exc = "none" => C23_ValidReferenceAriIssues

-----------------------------------------------------------------------------
(* ace.tools.ace_ari: run() with inform text.  src holds the arguments and  *)
(* the lines of the input, cur the position of decode() in them with its    *)
(* buffer and last_err, trail what encode() has written, and call the end   *)
(* of run.  adms is the catalog run has loaded before its loop.             *)

\* a line of the input, with its line end
Line(text) == text \o <<10>>

\* the lines of the inputs: ARIs of one line, an empty line, a name alone,
\* an ARI in two lines, and a byte string with an odd count of hex digits
CliLines ==
    { Line(TextTrue), Line(<<>>), Line(T(<<"o", "t", "h", "e", "r">>)), Line(TextGenRpts),
      Line(TextUnclosed), Line(T(<<")">>)), Line(T(<<"h", "'", "0", "'">>)) }

\* the most lines of an input
MaxLines == 3

InitCli ==
    /\ adms = Catalog
    /\ call = [op |-> "run", exc |-> "none", ret |-> None]
    /\ src \in {[form |-> "args",
                 val |-> [input |-> lines, outform |-> outform, must_nickname |-> must]] :
                   lines \in SeqsUpTo(CliLines, MaxLines), outform \in {"text", "cbor"},
                   must \in BOOLEAN}
    /\ cur = [form |-> "decode", val |-> [pos |-> 1, buffer |-> <<>>, last_err |-> "none"]]
    /\ trail = <<>>

\* encode(args, ari): what is written for one ARI
cli_encode(outform, ari) ==
    IF outform = "text" THEN Then(text_encode(ari), Out(<<10>>)) ELSE cbor_encode(ari)

\* the body of the loop of run for one decoded ARI: nn_func(ari), then
\* encode(args, ari)
cli_handle(args, rows, ari) ==
    LET Encoded(conv) == IF conv.exc # "none" THEN Fail(conv.exc)
                         ELSE cli_encode(args.outform, conv.val)
    IN  Encoded(convert(IF args.outform = "text" THEN "FROM_NN" ELSE "TO_NN",
                        rows, args.must_nickname, ari))

\* run leaves with an exception, or at the end of its loop
Exit(exc) ==
    /\ call' = [op |-> "exit", exc |-> exc, ret |-> None]
    /\ UNCHANGED <<adms, src, cur, trail>>

\* one turn of the loop of decode(): the next line is written to the buffer
\* and the buffer decoded; a decoded ARI is yielded to the loop of run, which
\* converts and writes it before the next line is read
ReadLine ==
    /\ call.op = "run"
    /\ cur.val.pos <= Len(src.val.input)
    /\ LET Written(buffer, w) ==
               IF w.exc # "none" THEN Exit(w.exc)
               ELSE /\ trail' = Append(trail, [op |-> "write", must |-> src.val.must_nickname,
                                               arg |-> AsText(buffer), exc |-> "none",
                                               out |-> w.out])
                    /\ cur' = [cur EXCEPT !.val = [pos |-> cur.val.pos + 1, buffer |-> <<>>,
                                                   last_err |-> "none"]]
                    /\ UNCHANGED <<adms, call, src>>
           Decoded(buffer, r) ==
               /\ r.exc # "Unmodelled"
               /\ IF r.exc = "none"
                  THEN Written(buffer, cli_handle(src.val, adms.rows, r.val))
                  ELSE IF r.exc = "ParseError"
                  THEN /\ cur' = [cur EXCEPT !.val = [pos |-> cur.val.pos + 1,
                                                      buffer |-> buffer,
                                                      last_err |-> "ParseError"]]
                       /\ UNCHANGED <<adms, call, src, trail>>
                  ELSE Exit(r.exc)
           Buffered(buffer) == Decoded(buffer, text_decode(buffer))
       IN  Buffered(cur.val.buffer \o src.val.input[cur.val.pos])

\* the end of the input: last_err is raised when there is one
EndOfInput ==
    /\ call.op = "run"
    /\ cur.val.pos > Len(src.val.input)
    /\ Exit(cur.val.last_err)

NextCli ==
    \/ ReadLine
    \/ EndOfInput

SpecCli == InitCli /\ [][NextCli]_vars

RECURSIVE Buffers(_, _, _)
\* the lines from the idx-th on, read into a buffer that is emptied each
\* time it parses as one ARI: the texts that parsed, and the buffer left
Buffers(lines, idx, buffer) ==
    LET Rest(parsed, more) == [parsed |-> parsed \o more.parsed, rest |-> more.rest]
    IN  IF idx > Len(lines) THEN [parsed |-> <<>>, rest |-> buffer]
        ELSE IF text_decode(buffer \o lines[idx]).exc = "none"
        THEN Rest(<<buffer \o lines[idx]>>, Buffers(lines, idx + 1, <<>>))
        ELSE Rest(<<>>, Buffers(lines, idx + 1, buffer \o lines[idx]))

\* C24: the lines are read one by one into a buffer; each time the buffer
\* parses as one ARI it has been written and the buffer emptied before the
\* next line is read, otherwise the buffer is kept; run ends at the end of
\* the input only, with ParseError when the buffer then holds lines and
\* without an exception when it is empty.
C24_TextInputBuffered ==
    LET Holds(read) ==
            /\ [i \in 1..Len(trail) |-> trail[i].arg.val] = read.parsed
            /\ cur.val.buffer = read.rest
            /\ call.op = "exit" =>
                    /\ cur.val.pos = Len(src.val.input) + 1
                    /\ call.exc = IF read.rest # <<>> THEN "ParseError" ELSE "none"
    IN  Holds(Buffers(SubSeq(src.val.input, 1, cur.val.pos - 1), 1, <<>>))

RECURSIVE InForm(_, _)
\* every reference of the tree has a namespace of the kind k, or none
InForm(obj, k) ==
    CASE obj.cls = "LiteralARI" -> TRUE
      [] obj.cls = "ReferenceARI" ->
            /\ obj.ident.namespace.k \in {k, "none"}
            /\ (obj.params # None =>
                    \A i \in 1..Len(obj.params.v) : InForm(obj.params.v[i], k))
      [] OTHER -> \A i \in 1..Len(obj.items) : InForm(obj.items[i], k)

\* the kind of namespace a mode leaves alone
TargetKind(op) == IF op = "TO_NN" THEN "int" ELSE "str"

-----------------------------------------------------------------------------
(* ADMs that use each other: the loads of two documents of which each uses  *)
(* the namespace of the other, of one that uses its own namespace, and of   *)
(* two that use none.                                                       *)

NsCycA == T(<<"n", "c", "a">>)
NsCycB == T(<<"n", "c", "b">>)
NsOwn == T(<<"n", "o">>)

DocCycA == AdmDoc(T(<<"c", "a">>), NsCycA, PyInt(31), <<NsCycB>>, <<>>)
DocCycB == AdmDoc(T(<<"c", "b">>), NsCycB, PyInt(32), <<NsCycA>>, <<>>)
DocOwn == AdmDoc(T(<<"o">>), NsOwn, PyInt(33), <<NsOwn>>, <<>>)

CycleDocs == {DocCycA, DocCycB, DocOwn, DocA, DocB}

NextCycle == \E doc \in CycleDocs, del_dupe \in BOOLEAN : LoadFromData(doc, del_dupe)

SpecCycle == Init /\ [][NextCycle]_vars

\* the AdmFile is one of those that use each other or themselves
InCycle(adm) == adm.norm_namespace \in {PyStr(NsCycA), PyStr(NsCycB), PyStr(NsOwn)}

\* the AdmFile is held in the pending map
IsPending(set, adm) == \E p \in 1..Len(set.pending_adms) : set.pending_adms[p].adm = adm

\* C26: of two ADMs that use each other's namespace, and of an ADM that
\* uses its own, none is ever stored: no row of the catalog is one of them
\* (so len(), names() and the lookups do not see them), the load that read
\* one has put it into the pending map, and it stays there.
C26_CycleStaysPending ==
    /\ [](/\ \A r \in 1..Len(adms.rows) : ~InCycle(adms.rows[r])
          /\ (call.op = "load_from_data" /\ call.exc = "none" /\ InCycle(call.ret))
                => IsPending(adms, call.ret))
    /\ [][\A p \in 1..Len(adms.pending_adms) :
              InCycle(adms.pending_adms[p].adm)
                  => IsPending(adms', adms.pending_adms[p].adm)]_vars

\* both ADMs that use each other were loaded, and then the ADM that uses none
C26_Witness ==
    /\ adms.next_oid = 4
    /\ Len(adms.rows) = 1
    /\ \E p, q \in 1..Len(adms.pending_adms) :
            /\ adms.pending_adms[p].adm.norm_namespace = PyStr(NsCycA)
            /\ adms.pending_adms[q].adm.norm_namespace = PyStr(NsCycB)

-----------------------------------------------------------------------------
(* The order of the checks of one call of Checker.check.                    *)

\* the names of the global checks, in the order of CONSTRAINTS
GlobalNames ==
    LET glob == SelectSeq(CONSTRAINTS, LAMBDA cst : cst.is_global)
    IN  [c \in 1..Len(glob) |-> glob[c].name]

\* the check of that name is a global one
IsGlobal(cst_name) == \E c \in 1..Len(GlobalNames) : GlobalNames[c] = cst_name

\* the ADMs that the last check() visits, as their oids in visiting order
Visited ==
    IF cur.val[1] = None THEN [r \in 1..Len(adms.rows) |-> adms.rows[r].oid]
    ELSE <<cur.val[1].v>>

\* the place of an AdmFile of that oid among the visited ones
VisitOf(oid) == CHOOSE v \in 1..Len(Visited) : Visited[v] = oid

\* C27: in one call of Checker.check (with or without src) the invoked
\* checks start with every global check, each once and with obj None, and
\* every later invocation is of a per-AdmFile check with an AdmFile; in the
\* returned list no Issue of a global check follows one of a per-AdmFile
\* check, and the per-AdmFile Issues are the Issues of the invocations in
\* their order, the invocations going through the visited AdmFiles in order.
C27_GlobalChecksFirst ==
    call.op = "check" =>
        /\ Len(trail) >= Len(GlobalNames)
        /\ \A i \in 1..Len(trail) :
              IF i <= Len(GlobalNames)
              THEN trail[i].name = GlobalNames[i] /\ trail[i].obj = None
              ELSE ~IsGlobal(trail[i].name) /\ trail[i].obj # None
        /\ \A i, j \in 1..Len(trail) :
              (Len(GlobalNames) < i /\ i < j)
                  => VisitOf(trail[i].obj.oid) <= VisitOf(trail[j].obj.oid)
        /\ call.exc = "none" =>
              /\ call.ret = Concat([i \in 1..Len(trail) |-> trail[i].issues])
              /\ \A i, j \in 1..Len(call.ret) :
                    (i < j /\ IsGlobal(call.ret[j].check_name))
                        => IsGlobal(call.ret[i].check_name)

\* check(src) of the second of two stored ADMs returned Issues of a global
\* and of a per-AdmFile check
C27_Witness ==
    /\ call.op = "check" /\ call.exc = "none"
    /\ cur.val[1] # None /\ cur.val[1].v = 2
    /\ \E i, j \in 1..Len(call.ret) :
            IsGlobal(call.ret[i].check_name) /\ ~IsGlobal(call.ret[j].check_name)

-----------------------------------------------------------------------------
(* The pending map across a load that raises: the loads of a directory with *)
(* a file of an ADM that uses nb and a file without the mdat object name,   *)
(* and the loads of documents that use no namespace or that of DocAgent.    *)

PathGA == T(<<"g", "/", "a", ".", "j", "s", "o", "n">>)
PathGN == T(<<"g", "/", "n", ".", "j", "s", "o", "n">>)

\* the files of the directory g
FilesG == (PathGA :> DocA2) @@ (PathGN :> DocNoName)

\* adms.load_from_dir("g"), os.scandir giving its entries in the order of scan
LoadFromDirG(scan) ==
    /\ adms.next_oid <= MaxLoads
    /\ Called("load_from_dir",
              load_from_dir(adms, FilesG, TRUE,
                            SelectSeq(scan, LAMBDA path : is_usable(BaseName(path)))))

NextPending ==
    \/ \E doc \in {DocA, DocB, DocAgent, DocU}, del_dupe \in BOOLEAN :
            LoadFromData(doc, del_dupe)
    \/ \E scan \in {<<PathGA, PathGN>>, <<PathGN, PathGA>>} : LoadFromDirG(scan)

SpecPending == Init /\ [][NextPending]_vars

\* C28: a load call that raises leaves the pending map as it was before
\* the call (its ADMs and the namespaces each still waits for), so that no
\* ADM held pending during a failed load is inserted by a later load.
\* Here the ADM of g/a.json is read by load_from_dir("g") only, and every
\* such call raises: the ADM is never stored.
C28_FailedLoadKeepsPending ==
    /\ [][call'.exc # "none" => adms'.pending_adms = adms.pending_adms]_vars
    /\ [](\A r \in 1..Len(adms.rows) : adms.rows[r].abs_file_path # PyStr(PathGA))

-----------------------------------------------------------------------------
(* The reference after a conversion from nicknames that raises.             *)

\* C29: when the conversion FROM_NN of a reference in nickname form
\* raises, the reference is not left with one of namespace and name
\* rewritten and the other not; when it has no parameters (so that the
\* failure is its own) both are what they were before the call.
C29_FromNnFailureKeepsIdent ==
    \A i \in 1..Len(trail) :
        (/\ trail[i].op = "FROM_NN"
         /\ trail[i].exc # "none"
         /\ trail[i].arg.val.cls = "ReferenceARI"
         /\ trail[i].arg.val.ident.namespace.k = "int")
        => LET before == trail[i].arg.val
               after == trail[i].out.val
           IN  /\ ValEq(after.ident.namespace, before.ident.namespace)
                  <=> ValEq(after.ident.name, before.ident.name)
               /\ (before.params = None \/ before.params.v = <<>>)
                  => SameIdent(before, after)

-----------------------------------------------------------------------------
(* The Issues of Checker.check(src).                                        *)

\* C30: every Issue that check(src) returns has the norm_name of src as
\* its adm_name, whatever the catalog holds besides src.
C30_CheckSrcIssuesOfSrc ==
    (call.op = "check" /\ call.exc = "none" /\ cur.val[1] # None)
    => \A r \in 1..Len(adms.rows) :
          adms.rows[r].oid = cur.val[1].v
          => \A i \in 1..Len(call.ret) : call.ret[i].adm_name = adms.rows[r].norm_name

=============================================================================
